---- MODULE Spec2Model ----
(***************************************************************************)
(* ChainDocs document discovery engine: the request throttle, the retrying *)
(* request executor and the cache / ledger reconciliation of               *)
(* src/src/utils/rateLimiter.js, as state machines.                        *)
(*                                                                         *)
(*   SpecThrottle  callers of globalRateLimiter.execute(fn) over time      *)
(*   SpecExec      one call of rateLimitedRequest, attempt by attempt      *)
(*   SpecDisc      issue, import, claim and getHolderDocuments calls       *)
(*                 interleaved on one Cache Store and one ledger           *)
(*   SpecPage      the handlers of the holder page on lists drawn from a   *)
(*                 bounded set                                             *)
(*   SpecQuery     queryBlockchainDocuments, request by request            *)
(*   SpecVerify    issue, import and verifyDocument                        *)
(*   SpecScan      the scans on a ledger other clients write to            *)
(*   SpecSession   one session of the holder page with its calls of        *)
(*                 getHolderDocuments in flight, and the claim buttons     *)
(*   SpecImport    the same session with the import dialog                 *)
(*   SpecWrites    issueDocument and claimDocumentAsNFT as calls that fail *)
(***************************************************************************)
EXTENDS Integers, Sequences, FiniteSets, TLC

(***************************************************************************)
(* Program constants.                                                      *)
(***************************************************************************)
\* new RateLimiter(8, 1000)
maxRequests == 8
timeWindow == 1000
\* "+ 10; // Add 10ms buffer"
WaitBuffer == 10
\* const REQUEST_DELAY = 200
REQUEST_DELAY == 200

(***************************************************************************)
(* Bounds of the model.                                                    *)
(***************************************************************************)
\* number of execute(fn) calls of one run of the throttle machine
MaxCallers == 9
\* callers arrive, and the clock is stepped by hand, only before this time
ArrivalHorizon == 400
\* granularity of the hand-stepped clock
TickMs == 200

VARIABLES
    now,          \* Date.now(), in ms
    requests,     \* globalRateLimiter.requests: recorded timestamps, oldest first
    started,      \* number of execute(fn) calls made so far
    cpc,          \* per call: "idle" | "sleeping" (in wait) | "delaying" (in fn) | "done"
    cwake,        \* per call: when its pending setTimeout fires
    cdelay,       \* per call: the pause of fn before it calls the ledger
    recorded,     \* per call: timestamps it pushed to requests
    slotTimes,    \* every timestamp pushed to requests so far, in order
    invoked,      \* per call: invocations of fn
    ledgerCalls,  \* the counting fake ledger: time of every call received
    \* ---- one call of rateLimitedRequest(requestFn, retries, baseDelay)
    epc,          \* "idle" | "try" | "throttled" | "backoff" | "returned" | "thrown"
    eretries,     \* argument retries
    ebase,        \* argument baseDelay
    attempt,      \* loop variable attempt
    delay,        \* local delay, the current backoff value
    ewake,        \* when the pending setTimeout of the call fires
    eslots,       \* throttle slots the call has acquired
    eresponses,   \* what requestFn answered, call by call
    eslept,       \* the retryAfter values slept between attempts
    eresult,      \* the value returned or the error thrown
    \* ---- the Cache Store (localStorage) and the ledger
    docs,         \* chaindocs_documents: document records, in insertion order
    issuers,      \* chaindocs_issuers: the Issuer Registry
    claimedIds,   \* chaindocs_claimed
    nftMint,      \* chaindocs_nft_<id>, per document id; 0 is no entry
    claimTx,      \* chaindocs_claim_tx_<id>, per document id; 0 is no entry
    ledger,       \* the transactions on the ledger, oldest first;
                  \* the signature of a transaction is its position
    \* ---- issueDocument in flight
    ipc,          \* "idle" | "sent": issueDocument awaits confirmTransaction
    irec,         \* the documentRecord issueDocument will store
    \* ---- getHolderDocuments(holderPublicKey, connection) in flight
    dpc,          \* "idle" | "method2" | "method3" | "save"
    dholder,      \* holderAddress
    dholderDocs,  \* holderDocs of getHolderDocuments, read when the call started
    ddocuments,   \* documents of queryBlockchainDocuments
    dseen,        \* what each strategy met: [method, sig, documentId, title]
    dcalls,       \* the scan requests the ledger answered: [method, address, sig]
    dfailed,      \* the scan methods in which a request threw
    dlookups,     \* the signatures Method 1 asked getTransaction for
    \* ---- what the caller got
    dresult,      \* the list last returned by getHolderDocuments(FromCache)
    dfor,         \* the holder that list was asked for
    dclaimed,     \* claimedDocs as read for the annotation of that list
    dprev,        \* the call before, while nothing else has touched the cache
                  \* or the ledger: [phase, holder, ids, calls]
    nimports,     \* number of imports so far
    \* ---- the holder page (WalletGuide)
    pageOp,                   \* the handler of the page that ran last
    previousDocumentIds,      \* previousDocumentIds.current
    newDocumentNotification,  \* state newDocumentNotification; NoDocument is null
    pageDocuments,            \* state documents
    polled,                   \* the list getHolderDocuments returned to the page last
    pnotified,                \* the documents the last handler passed to
                              \* setNewDocumentNotification
    \* ---- queryBlockchainDocuments, request by request and attempt by attempt
    qpc,          \* "m1" | "m2sig" | "m2tx" | "m3sig" | "m3tx" | "done"
    qstep,        \* "next" | "acquire" (in globalRateLimiter.wait) | "invoke"
    qleft,        \* holderLocalDocs still to be verified by Method 1
    qregistry,    \* uniqueIssuers.length
    qi,           \* loop variable i of Method 2
    qsigs,        \* signatures.length / recentSignatures.length
    qj,           \* index into that list
    qretries,     \* argument retries of the rateLimitedRequest in progress
    qattempt,     \* its loop variable attempt
    qslots,       \* throttle slots it has acquired
    qcalls,       \* ledger calls it has made
    qunit,        \* ledger calls made for the cached document, the issuer or
                  \* the memo channel being scanned
    \* ---- verifyDocument(credentialHash, documentId)
    vhash,        \* argument credentialHash of the last call
    vid,          \* argument documentId of the last call
    vresult,      \* what the last call returned: [valid, error, document]
    \* ---- one session of the holder page, getHolderDocuments calls in flight
    smounted,     \* the useEffect of the page has run
    sflight,      \* the getHolderDocuments calls in flight, with their callers
    spolls,       \* number of times the interval has fired
    sshow,        \* state showNotification of DocumentNotification
    sclaiming,    \* state claiming of the page: the id being claimed, 0 is null
    sreload,      \* the setTimeout(loadDocuments, 1000) of an import is pending
    sreport,      \* what handleImportDocument told the holder last
    sannounced,   \* the ids passed to setNewDocumentNotification, in order
    \* ---- issueDocument and claimDocumentAsNFT as whole calls
    wresult       \* what the last call returned: [op, step, success]

thrVars == <<started, cpc, cwake, cdelay, recorded, slotTimes, invoked, ledgerCalls>>
exeVars == <<epc, eretries, ebase, attempt, delay, ewake, eslots, eresponses,
             eslept, eresult>>
cacheVars == <<docs, issuers, claimedIds, nftMint, claimTx>>
opVars == <<ipc, irec, nimports>>
scanVars == <<dpc, dholder, dholderDocs, ddocuments, dseen, dcalls,
             dfailed, dlookups>>
outVars == <<dresult, dfor, dclaimed>>
discVars == <<cacheVars, ledger, opVars, scanVars, outVars, dprev>>
pageVars == <<pageOp, previousDocumentIds, newDocumentNotification, pageDocuments,
              polled, pnotified>>
queryVars == <<qpc, qstep, qleft, qregistry, qi, qsigs, qj, qretries, qattempt,
               qslots, qcalls, qunit>>
verifyVars == <<vhash, vid, vresult>>
sessVars == <<smounted, sflight, spolls, sshow, sclaiming, sreload, sreport, sannounced>>
writeVars == <<wresult>>
sideVars == <<pageVars, queryVars, verifyVars, sessVars, writeVars>>
vars == <<now, requests, thrVars, exeVars, discVars, sideVars>>

(***************************************************************************)
(* Documents, addresses and the idle state of the discovery machine        *)
(***************************************************************************)
\* documentIds are 1..MaxDocs, handed out in this order by Keypair.generate()
MaxDocs == 2
DocIds == 1..MaxDocs
\* holder addresses: base58 is case sensitive, these two differ in case only
Holders == {"Ab", "aB"}
\* the wallet connected to the holder dashboard
Connected == {"Ab"}
\* wallets that issue
Wallets == {"I2"}
\* contents of a document: version v fixes title, issueDate, credentialHash
Versions == {1, 2}
\* imports and ledger transactions of one run
MaxImports == 1
MaxLedger == 2

\* String.prototype.toLowerCase on the addresses
ToLowerCase(a) ==
    CASE a = "Ab" -> "ab"
      [] a = "aB" -> "ab"
      [] a = "I2" -> "i2"
      [] OTHER -> a

TitleOf(v) == IF v = 1 THEN "Degree" ELSE "Diploma"
HashOf(v) == IF v = 1 THEN "h1" ELSE "h2"

\* documentRecord of issueDocument / importDocumentFromShareableData
\* (documentType and metadata travel with title; sig 0 is no signature)
DocumentRecord(id, issuer, holder, v, sig) ==
    [documentId |-> id, issuer |-> issuer, holder |-> holder,
     title |-> TitleOf(v), issueDate |-> id, credentialHash |-> HashOf(v),
     transactionSignature |-> sig]

NoDocument == DocumentRecord(0, "", "", 1, 0)

\* no undisturbed call of getHolderDocuments to compare with
NoPrev == [phase |-> "none", holder |-> "", ids |-> {}, calls |-> {}]

\* nothing stored, nothing on the ledger, no operation in flight
DiscIdle ==
    /\ docs = <<>>
    /\ issuers = <<>>
    /\ claimedIds = <<>>
    /\ nftMint = [id \in DocIds |-> 0]
    /\ claimTx = [id \in DocIds |-> 0]
    /\ ledger = <<>>
    /\ ipc = "idle"
    /\ irec = NoDocument
    /\ nimports = 0
    /\ dpc = "idle"
    /\ dholder = ""
    /\ dholderDocs = <<>>
    /\ ddocuments = <<>>
    /\ dseen = {}
    /\ dcalls = {}
    /\ dfailed = {}
    /\ dlookups = {}
    /\ dresult = <<>>
    /\ dfor = ""
    /\ dclaimed = <<>>
    /\ dprev = NoPrev

\* the holder page has just mounted
PageIdle ==
    /\ pageOp = "none"
    /\ previousDocumentIds = {}
    /\ newDocumentNotification = NoDocument
    /\ pageDocuments = <<>>
    /\ polled = <<>>
    /\ pnotified = {}

\* queryBlockchainDocuments has not been called
QueryIdle ==
    /\ qpc = "done"
    /\ qstep = "next"
    /\ qleft = 0
    /\ qregistry = 0
    /\ qi = 0
    /\ qsigs = 0
    /\ qj = 0
    /\ qretries = 0
    /\ qattempt = 0
    /\ qslots = 0
    /\ qcalls = 0
    /\ qunit = 0

\* what verifyDocument shows of a document
Verified(doc) ==
    [documentId |-> doc.documentId, issuer |-> doc.issuer, holder |-> doc.holder,
     title |-> doc.title, issueDate |-> doc.issueDate]

\* verifyDocument has not been called
VerifyIdle ==
    /\ vhash = ""
    /\ vid = 0
    /\ vresult = [valid |-> FALSE, error |-> "", document |-> Verified(NoDocument)]

\* the holder page is not mounted
SessionIdle ==
    /\ smounted = FALSE
    /\ sflight = <<>>
    /\ spolls = 0
    /\ sshow = FALSE
    /\ sclaiming = 0
    /\ sreload = FALSE
    /\ sreport = "none"
    /\ sannounced = <<>>

\* neither issueDocument nor claimDocumentAsNFT has returned
WriteIdle == wresult = [op |-> "none", step |-> "none", success |-> FALSE]

SideIdle == PageIdle /\ QueryIdle /\ VerifyIdle /\ SessionIdle /\ WriteIdle

Callers == 1..MaxCallers

\* the pauses request functions make before the ledger call:
\* none (getTransaction), delay(REQUEST_DELAY) (getSignaturesForAddress)
FnDelays == {0, REQUEST_DELAY}

(***************************************************************************)
(* RateLimiter.wait                                                        *)
(***************************************************************************)
\* this.requests.filter(time => now - time < this.timeWindow)
FreshRequests(reqs, t) == SelectSeq(reqs, LAMBDA time : t - time < timeWindow)

\* this.timeWindow - (now - oldestRequest) + 10
WaitTime(reqs, t) == timeWindow - (t - FreshRequests(reqs, t)[1]) + WaitBuffer

\* the caller sleeps only when the limit is exceeded (not the behaviour of
\* the code)
MustWaitLate(reqs, t) ==
    /\ Len(FreshRequests(reqs, t)) > maxRequests
    /\ WaitTime(reqs, t) > 0

\* the limit is hit and the computed wait is positive: the caller sleeps
MustWait(reqs, t) ==
    /\ Len(FreshRequests(reqs, t)) >= maxRequests
    /\ WaitTime(reqs, t) > 0

\* fn(): the request function pauses d ms, then calls the ledger
InvokeFn(c, d) ==
    /\ invoked' = [invoked EXCEPT ![c] = @ + 1]
    /\ IF d = 0
          THEN /\ ledgerCalls' = Append(ledgerCalls, now)
               /\ cpc' = [cpc EXCEPT ![c] = "done"]
               /\ cwake' = [cwake EXCEPT ![c] = 0]
          ELSE /\ ledgerCalls' = ledgerCalls
               /\ cpc' = [cpc EXCEPT ![c] = "delaying"]
               /\ cwake' = [cwake EXCEPT ![c] = now + d]

\* one run of wait() up to its await, followed (when it records) by fn()
RunWait(c, d) ==
    IF MustWait(requests, now)
       THEN /\ requests' = FreshRequests(requests, now)
            /\ cpc' = [cpc EXCEPT ![c] = "sleeping"]
            /\ cwake' = [cwake EXCEPT ![c] = now + WaitTime(requests, now)]
            /\ UNCHANGED <<recorded, slotTimes, invoked, ledgerCalls>>
       ELSE /\ requests' = Append(FreshRequests(requests, now), now)
            /\ recorded' = [recorded EXCEPT ![c] = @ + 1]
            /\ slotTimes' = Append(slotTimes, now)
            /\ InvokeFn(c, d)

\* a caller that slept returns from wait() without checking again
ResumeNoRecheck(c, d) ==
    /\ requests' = FreshRequests(requests, now)
    /\ UNCHANGED <<recorded, slotTimes>>
    /\ InvokeFn(c, d)

\* "return this.wait(); // Recursively check again"
Resume(c, d) == RunWait(c, d)

(***************************************************************************)
(* Actions of the throttle machine                                         *)
(***************************************************************************)
\* globalRateLimiter.execute(fn) is called
Call ==
    /\ started < MaxCallers
    /\ now <= ArrivalHorizon
    /\ \E d \in FnDelays :
          /\ started' = started + 1
          /\ cdelay' = [cdelay EXCEPT ![started + 1] = d]
          /\ RunWait(started + 1, d)
    /\ UNCHANGED <<now, exeVars, discVars, sideVars>>

\* the setTimeout of a sleeping wait() fires
WakeWaiter ==
    \E c \in Callers :
        /\ cpc[c] = "sleeping"
        /\ cwake[c] <= now
        /\ Resume(c, cdelay[c])
        /\ UNCHANGED <<now, started, cdelay, exeVars, discVars, sideVars>>

\* the delay inside the request function is over: the ledger is called.
\* Timers of equal expiry fire in the order they were set; the continuations
\* due at one instant append the same timestamp, so their order is fixed here.
FnCallsLedger ==
    \E c \in Callers :
        /\ cpc[c] = "delaying"
        /\ cwake[c] <= now
        /\ \A b \in 1..(c - 1) : ~(cpc[b] = "delaying" /\ cwake[b] <= now)
        /\ ledgerCalls' = Append(ledgerCalls, now)
        /\ cpc' = [cpc EXCEPT ![c] = "done"]
        /\ cwake' = [cwake EXCEPT ![c] = 0]
        /\ UNCHANGED <<now, requests, started, cdelay, recorded, slotTimes, invoked, exeVars,
                       discVars, sideVars>>

Pending == {c \in Callers : cpc[c] \in {"sleeping", "delaying"}}
Due == {c \in Pending : cwake[c] <= now}
\* the earliest pending timer (only used when there is one)
NextTimer == CHOOSE t \in {cwake[c] : c \in Pending} :
                 \A c \in Pending : t <= cwake[c]

\* the times the clock may move to: the next timer, or one tick of idle time
ClockSteps ==
    (IF Pending # {} THEN {NextTimer} ELSE {})
    \cup (IF now < ArrivalHorizon
             /\ (IF Pending = {} THEN TRUE ELSE now + TickMs < NextTimer)
          THEN {now + TickMs} ELSE {})

\* time passes, never beyond the next timer; due timers fire first
Advance ==
    /\ Due = {}
    /\ \E t \in ClockSteps : now' = t
    /\ UNCHANGED <<requests, thrVars, exeVars, discVars, sideVars>>

\* no caller of the throttle machine has arrived
ThrottleIdle ==
    /\ started = 0
    /\ cpc = [c \in Callers |-> "idle"]
    /\ cwake = [c \in Callers |-> 0]
    /\ cdelay = [c \in Callers |-> 0]
    /\ recorded = [c \in Callers |-> 0]
    /\ slotTimes = <<>>
    /\ invoked = [c \in Callers |-> 0]
    /\ ledgerCalls = <<>>

\* rateLimitedRequest has not been called
ExecutorIdle ==
    /\ epc = "idle"
    /\ eretries = 0
    /\ ebase = 0
    /\ attempt = 0
    /\ delay = 0
    /\ ewake = 0
    /\ eslots = 0
    /\ eresponses = <<>>
    /\ eslept = <<>>
    /\ eresult = [kind |-> "none", call |-> 0,
                  err |-> [message |-> <<>>, header |-> "", call |-> 0]]

InitThrottle ==
    /\ now = 0
    /\ requests = <<>>
    /\ ThrottleIdle
    /\ ExecutorIdle
    /\ DiscIdle
    /\ SideIdle

NextThrottle == Call \/ WakeWaiter \/ FnCallsLedger \/ Advance

SpecThrottle == InitThrottle /\ [][NextThrottle]_vars

\* timers fire and time advances
FairThrottle == SpecThrottle /\ WF_vars(WakeWaiter \/ FnCallsLedger \/ Advance)

(***************************************************************************)
(* rateLimitedRequest(requestFn, retries, baseDelay)                       *)
(***************************************************************************)
\* A JavaScript number that may be NaN (parseInt of a non-numeric string).
Num(n) == [nan |-> FALSE, v |-> n]
NaN == [nan |-> TRUE, v |-> 0]
\* a === b on numbers: NaN equals nothing
JsStrictEq(a, b) == ~a.nan /\ ~b.nan /\ a.v = b.v
\* Math.max(a, b): NaN when either is NaN
JsMax(a, b) == IF a.nan \/ b.nan THEN NaN
               ELSE IF a.v >= b.v THEN a ELSE b
\* a * 1000
Times1000(a) == IF a.nan THEN NaN ELSE Num(a.v * 1000)
\* the time a setTimeout(resolve, ms) takes: NaN and negatives count as 0
TimerMs(a) == IF a.nan \/ a.v < 0 THEN 0 ELSE a.v

\* parseInt on the strings the model uses; anything without leading digits is NaN
ParseInt(str) ==
    CASE str = "0" -> Num(0)
      [] str = "1" -> Num(1)
      [] str = "2" -> Num(2)
      [] str = "5" -> Num(5)
      [] OTHER -> NaN

\* error.message, as its words; <<>> is an error without a message
Msg429 == <<"429", "Too", "Many", "Requests">>
MsgHint == <<"rate", "limit", "exceeded.", "Retry-After:", "5">>
MsgLower == <<"too", "many", "requests">>
MsgNotFound == <<"Transaction", "not", "found">>
NoMessage == <<>>

\* error.response.headers['retry-after']; "" is no header (or no response)
NoHeader == ""
HttpDate == "Wed, 21 Oct 2026 07:28:00 GMT"
Headers == {NoHeader, "0", "1", "2", HttpDate}

NoError == [message |-> NoMessage, header |-> NoHeader, call |-> 0]

\* the errors requestFn may throw at its n-th call
ErrorsAt(n) ==
    [message : {Msg429, MsgHint}, header : Headers, call : {n}]
    \cup [message : {MsgLower, MsgNotFound, NoMessage}, header : {NoHeader}, call : {n}]

\* what the n-th call of requestFn does: it resolves, or it throws
OutcomesAt(n) ==
    {[ok |-> TRUE, err |-> NoError]} \cup {[ok |-> FALSE, err |-> e] : e \in ErrorsAt(n)}

\* String.prototype.includes, on words
Includes(msg, needle) ==
    \E i \in 1..(Len(msg) - Len(needle) + 1) :
        SubSeq(msg, i, i + Len(needle) - 1) = needle

\* every error is taken for a rate-limit error
IsRateLimitErrorAlways(err) == TRUE

\* error.message && (includes('429') || includes('Too Many Requests') || ...)
IsRateLimitError(err) ==
    /\ err.message # NoMessage
    /\ \/ Includes(err.message, <<"429">>)
       \/ Includes(err.message, <<"Too", "Many", "Requests">>)
       \/ Includes(err.message, <<"rate", "limit">>)
       \/ Includes(err.message, <<"slow", "down">>)

\* the i flag of the pattern, on the words it can match
LowerWord(w) ==
    CASE w = "Retry-After:" -> "retry-after:"
      [] w = "Retry-After" -> "retry-after"
      [] OTHER -> w

\* error.message.match(/retry[-\s]after[:\s]+(\d+)/i): the positions that match
HintPositions(msg) ==
    {i \in 1..(Len(msg) - 1) :
        /\ LowerWord(msg[i]) \in {"retry-after:", "retry-after"}
        /\ ~ParseInt(msg[i + 1]).nan}

\* match[1] of the first match
HintDigits(msg) ==
    msg[(CHOOSE i \in HintPositions(msg) : \A j \in HintPositions(msg) : i <= j) + 1]

\* retryAfter after "Check error response headers"
AfterHeader(err, d) ==
    IF err.header # NoHeader THEN Times1000(ParseInt(err.header)) ELSE Num(d)

\* retryAfter after "Try to parse from error message"
AfterMessage(err, d) ==
    IF JsStrictEq(AfterHeader(err, d), Num(d)) /\ HintPositions(err.message) # {}
       THEN Times1000(ParseInt(HintDigits(err.message)))
       ELSE AfterHeader(err, d)

\* retryAfter = Math.max(retryAfter, 1000)
RetryAfter(err, d) == JsMax(AfterMessage(err, d), Num(1000))

\* the loop gives up one attempt early
MayRetryEarly(att, retries) == att < retries - 2

\* if (attempt < retries - 1)
MayRetry(att, retries) == att < retries - 1

\* delay = Math.min(delay * 2, 30000)
NextDelay(d) == IF d * 2 <= 30000 THEN d * 2 ELSE 30000

\* arguments of the calls: retries 0..MaxRetries; the call sites pass 500 and
\* 1000 as baseDelay, 40000 is a base beyond the 30 s cap
MaxRetries == 3
BaseDelays == {500, 1000, 40000}

\* the throttle window when the call starts: empty, or full at time 0
BusyWindow == [i \in 1..maxRequests |-> 0]

ExecStart ==
    /\ epc = "idle"
    /\ \E r \in 0..MaxRetries, b \in BaseDelays :
          /\ eretries' = r
          /\ ebase' = b
          /\ delay' = b
          /\ attempt' = 0
          /\ epc' = IF 0 < r THEN "try" ELSE "returned"
          /\ eresult' = IF 0 < r THEN eresult
                        ELSE [kind |-> "undefined", call |-> 0, err |-> NoError]
    /\ UNCHANGED <<now, requests, thrVars, ewake, eslots, eresponses, eslept,
                   discVars, sideVars>>

\* "throw error" sits in the branch of the other errors only: the last
\* throttled attempt leaves the loop and the function returns undefined
CatchSwallowLast(err) ==
    IF IsRateLimitError(err)
       THEN IF MayRetry(attempt, eretries)
               THEN /\ epc' = "backoff"
                    /\ eslept' = Append(eslept, RetryAfter(err, delay))
                    /\ ewake' = now + TimerMs(RetryAfter(err, delay))
                    /\ UNCHANGED eresult
               ELSE /\ epc' = "returned"
                    /\ eresult' = [kind |-> "undefined", call |-> 0, err |-> NoError]
                    /\ UNCHANGED <<eslept, ewake>>
       ELSE /\ epc' = "thrown"
            /\ eresult' = [kind |-> "error", call |-> err.call, err |-> err]
            /\ UNCHANGED <<eslept, ewake>>

\* the catch block, for the error err of the attempt
Catch(err) ==
    IF IsRateLimitError(err) /\ MayRetry(attempt, eretries)
       THEN /\ epc' = "backoff"
            /\ eslept' = Append(eslept, RetryAfter(err, delay))
            /\ ewake' = now + TimerMs(RetryAfter(err, delay))
            /\ UNCHANGED eresult
       ELSE /\ epc' = "thrown"
            /\ eresult' = [kind |-> "error", call |-> err.call, err |-> err]
            /\ UNCHANGED <<eslept, ewake>>

\* one attempt: globalRateLimiter.execute(requestFn) up to its outcome
ExecAttempt ==
    /\ epc = "try"
    /\ IF MustWait(requests, now)
          THEN /\ requests' = FreshRequests(requests, now)
               /\ epc' = "throttled"
               /\ ewake' = now + WaitTime(requests, now)
               /\ UNCHANGED <<eslots, eresponses, eslept, eresult>>
          ELSE /\ requests' = Append(FreshRequests(requests, now), now)
               /\ eslots' = eslots + 1
               /\ \E out \in OutcomesAt(Len(eresponses) + 1) :
                     /\ eresponses' = Append(eresponses, out)
                     /\ IF out.ok
                           THEN /\ epc' = "returned"
                                /\ eresult' = [kind |-> "value",
                                               call |-> Len(eresponses) + 1,
                                               err |-> NoError]
                                /\ UNCHANGED <<eslept, ewake>>
                           ELSE Catch(out.err)
    /\ UNCHANGED <<now, thrVars, eretries, ebase, attempt, delay, discVars, sideVars>>

\* the sleep of wait() is over: check again
ExecThrottleWake ==
    /\ epc = "throttled"
    /\ ewake <= now
    /\ epc' = "try"
    /\ UNCHANGED <<now, requests, thrVars, eretries, ebase, attempt, delay, ewake,
                   eslots, eresponses, eslept, eresult, discVars, sideVars>>

\* the sleep of retryAfter ms is over: double the backoff, next attempt
ExecBackoffOver ==
    /\ epc = "backoff"
    /\ ewake <= now
    /\ delay' = NextDelay(delay)
    /\ attempt' = attempt + 1
    /\ epc' = "try"
    /\ UNCHANGED <<now, requests, thrVars, eretries, ebase, ewake, eslots,
                   eresponses, eslept, eresult, discVars, sideVars>>

\* time passes until the pending timer of the call
ExecAdvance ==
    /\ epc \in {"throttled", "backoff"}
    /\ ewake > now
    /\ now' = ewake
    /\ UNCHANGED <<requests, thrVars, exeVars, discVars, sideVars>>

InitExec ==
    /\ now = 0
    /\ requests \in {<<>>, BusyWindow}
    /\ ThrottleIdle
    /\ ExecutorIdle
    /\ DiscIdle
    /\ SideIdle

NextExec ==
    ExecStart \/ ExecAttempt \/ ExecThrottleWake \/ ExecBackoffOver \/ ExecAdvance

SpecExec == InitExec /\ [][NextExec]_vars

(***************************************************************************)
(* The Cache Store and the ledger                                          *)
(***************************************************************************)
Range(seq) == {seq[i] : i \in DOMAIN seq}
Ids(list) == {list[i].documentId : i \in DOMAIN list}
Min(a, b) == IF a <= b THEN a ELSE b

\* list.findIndex(d => d.documentId === id), 0 when there is none
FindIndex(list, id) ==
    IF id \in Ids(list)
       THEN CHOOSE i \in DOMAIN list :
               /\ list[i].documentId = id
               /\ \A j \in 1..(i - 1) : list[j].documentId # id
       ELSE 0

\* { ...a, ...b }
Spread(a, b) ==
    [f \in DOMAIN a \cup DOMAIN b |-> IF f \in DOMAIN b THEN b[f] ELSE a[f]]

\* if (!issuerRegistry.includes(issuer)) issuerRegistry.push(issuer)
Register(registry, issuer) ==
    IF issuer \in Range(registry) THEN registry ELSE Append(registry, issuer)

\* memoPayload of issueDocument
IssuePayload(rec) ==
    [app |-> "chaindocs", action |-> "", documentId |-> rec.documentId,
     issuer |-> rec.issuer, holder |-> rec.holder,
     credentialHash |-> rec.credentialHash, title |-> rec.title,
     issuedAt |-> rec.issueDate]

\* claimPayload of claimDocumentAsNFT: no issuer, title, issuedAt, credentialHash
ClaimPayload(id, holder) ==
    [app |-> "chaindocs", action |-> "claim", documentId |-> id,
     issuer |-> "", holder |-> holder, credentialHash |-> "", title |-> "",
     issuedAt |-> 0]

\* a key the payload does not have reads as undefined (0 for the numbers)
Absent == "undefined"

\* what parseMemoInstruction answers for data that is not JSON: null
NoPayload ==
    [app |-> Absent, action |-> Absent, documentId |-> 0, issuer |-> Absent,
     holder |-> Absent, credentialHash |-> Absent, title |-> Absent, issuedAt |-> 0]

\* a confirmed transaction of one Memo instruction, paid by account: the
\* data of the instruction is the JSON text of payload, the message lists
\* its instructions in the legacy layout
MemoTx(account, payload) ==
    [account |-> account, err |-> FALSE, format |-> "legacy", json |-> TRUE,
     memo |-> payload]

\* parseMemoInstruction: JSON.parse of the instruction data, null when it
\* throws
ParseMemoInstruction(tx) == IF tx.json THEN tx.memo ELSE NoPayload

\* ids a new Keypair cannot collide with
UsedIds == Ids(docs) \cup {ledger[i].memo.documentId : i \in DOMAIN ledger}
FreshId == CHOOSE id \in DocIds \ UsedIds : \A other \in DocIds \ UsedIds : id <= other

(***************************************************************************)
(* issueDocument                                                           *)
(***************************************************************************)
\* up to "await issuerWallet.sendTransaction": the memo is on the ledger
IssueSend ==
    /\ ipc = "idle"
    /\ DocIds \ UsedIds # {}
    /\ Len(ledger) < MaxLedger
    /\ \E w \in Wallets, h \in Holders :
          LET rec == DocumentRecord(FreshId, w, h, 1, Len(ledger) + 1) IN
          /\ ledger' = Append(ledger, MemoTx(w, IssuePayload(rec)))
          /\ irec' = rec
    /\ ipc' = "sent"
    /\ dprev' = NoPrev
    /\ UNCHANGED <<sideVars, now, requests, thrVars, exeVars, cacheVars, nimports,
                   scanVars, outVars>>

\* confirmTransaction resolved: push the record, register the issuer
IssueStore ==
    /\ ipc = "sent"
    /\ docs' = Append(docs, irec)
    /\ issuers' = Register(issuers, irec.issuer)
    /\ ipc' = "idle"
    /\ irec' = NoDocument
    /\ dprev' = NoPrev
    /\ UNCHANGED <<sideVars, now, requests, thrVars, exeVars, claimedIds, nftMint, claimTx,
                   ledger, nimports, scanVars, outVars>>

\* confirmTransaction threw, or the document was issued from another browser:
\* the memo is on the ledger, this Cache Store is not written
IssueNotStored ==
    /\ ipc = "sent"
    /\ ipc' = "idle"
    /\ irec' = NoDocument
    /\ UNCHANGED dprev
    /\ UNCHANGED <<sideVars, now, requests, thrVars, exeVars, cacheVars, ledger, nimports,
                   scanVars, outVars>>

(***************************************************************************)
(* importDocumentFromShareableData                                         *)
(***************************************************************************)
\* a signature the ledger has no transaction for: getTransaction answers null
NoSuchSignature == MaxLedger + 1

\* the issuance transactions on the ledger
Issuances == {i \in DOMAIN ledger : ledger[i].memo.action = ""}

\* the shareable data of the document issued by transaction i, as exported
Exported(i) ==
    DocumentRecord(ledger[i].memo.documentId, ledger[i].memo.issuer,
                   ledger[i].memo.holder, 1, i)

\* shareable data of a document that is not on this ledger and carries no
\* signature
Unlisted ==
    IF DocIds \ UsedIds = {} THEN {}
    ELSE {DocumentRecord(FreshId, w, "Ab", 1, 0) : w \in Wallets}

\* shareable data of the documents on the ledger: as exported, or with the
\* holder, the contents or the signature altered; and of unlisted documents
ImportInputs ==
    Unlisted \cup
    UNION {{Exported(i),
            [Exported(i) EXCEPT !.transactionSignature = 0],
            [Exported(i) EXCEPT !.transactionSignature = NoSuchSignature]}
           \cup {[Exported(i) EXCEPT !.holder = h] : h \in Holders}
           \cup {[Exported(i) EXCEPT !.title = TitleOf(v), !.credentialHash = HashOf(v)] :
                    v \in Versions} :
        i \in Issuances}

\* existingDocuments after the import of documentRecord
Upsert(list, rec) ==
    IF FindIndex(list, rec.documentId) > 0
       THEN [list EXCEPT ![FindIndex(list, rec.documentId)] = rec]
       ELSE Append(list, rec)

Import ==
    /\ nimports < MaxImports
    /\ \E rec \in ImportInputs :
          /\ docs' = Upsert(docs, rec)
          /\ issuers' = Register(issuers, rec.issuer)
    /\ nimports' = nimports + 1
    /\ dprev' = NoPrev
    /\ UNCHANGED <<sideVars, now, requests, thrVars, exeVars, claimedIds, nftMint, claimTx,
                   ledger, ipc, irec, scanVars, outVars>>

(***************************************************************************)
(* claimDocumentAsNFT                                                      *)
(***************************************************************************)
\* the claimed flag is taken from the record, which carries none
IsClaimedFromRecord(list, id) == FALSE

\* claimedDocs.includes(doc.documentId)
IsClaimed(list, id) == id \in Range(list)

\* the claim stores the mint and leaves chaindocs_claimed as it is (not the
\* behaviour of the code)
ClaimedAfterUnmarked(list, id) == list

\* chaindocs_claimed after the claim of id
ClaimedAfter(list, id) == IF IsClaimed(list, id) THEN list ELSE Append(list, id)

\* the claim buttons act on a document of the list last returned; the memo is
\* confirmed, the id marked as claimed, the mock mint (a new Keypair, named
\* here by the claim's signature) and the claim transaction stored
Claim ==
    /\ Len(ledger) < MaxLedger
    /\ \E id \in Ids(dresult) :
          /\ ledger' = Append(ledger, MemoTx(dfor, ClaimPayload(id, dfor)))
          /\ claimedIds' = ClaimedAfter(claimedIds, id)
          /\ nftMint' = [nftMint EXCEPT ![id] = Len(ledger) + 1]
          /\ claimTx' = [claimTx EXCEPT ![id] = Len(ledger) + 1]
    /\ dprev' = NoPrev
    /\ UNCHANGED <<sideVars, now, requests, thrVars, exeVars, docs, issuers, opVars, scanVars,
                   outVars>>

\* confirmTransaction threw: the memo was sent, success = false, nothing stored
ClaimNotStored ==
    /\ Len(ledger) < MaxLedger
    /\ \E id \in Ids(dresult) :
          ledger' = Append(ledger, MemoTx(dfor, ClaimPayload(id, dfor)))
    /\ dprev' = NoPrev
    /\ UNCHANGED <<sideVars, now, requests, thrVars, exeVars, cacheVars, opVars, scanVars,
                   outVars>>

\* a claim made from another browser, or a claim memo written by hand: it is
\* on the ledger, this Cache Store is not written
ClaimElsewhere ==
    /\ Len(ledger) < MaxLedger
    /\ \E id \in DocIds, w \in Holders :
          ledger' = Append(ledger, MemoTx(w, ClaimPayload(id, w)))
    /\ dprev' = NoPrev
    /\ UNCHANGED <<sideVars, now, requests, thrVars, exeVars, cacheVars, opVars, scanVars,
                   outVars>>

(***************************************************************************)
(* queryBlockchainDocuments                                                *)
(***************************************************************************)
MAX_ISSUERS == 10
MAX_TXS_PER_ISSUER == 50
MemoSignatureLimit == 30
MemoScanLimit == 20

\* the elements of a set of signatures, newest first
RECURSIVE NewestFirst(_)
NewestFirst(S) ==
    IF S = {} THEN <<>>
    ELSE LET m == CHOOSE x \in S : \A y \in S : y <= x
         IN <<m>> \o NewestFirst(S \ {m})

FirstN(seq, n) == SubSeq(seq, 1, Min(Len(seq), n))

\* connection.getSignaturesForAddress(address, { limit })
GetSignaturesForAddress(address, limit) ==
    FirstN(NewestFirst({i \in DOMAIN ledger : ledger[i].account = address}), limit)

\* connection.getSignaturesForAddress(MEMO_PROGRAM_ID, { limit })
GetMemoSignatures(limit) == FirstN(NewestFirst(DOMAIN ledger), limit)

\* tx && tx.meta && tx.meta.err === null, for the transaction of sig
Succeeded(sig) == sig \in DOMAIN ledger /\ ~ledger[sig].err

\* getTransaction for every cached document, signature or not (not the
\* behaviour of the code)
Method1LookupsAll(local) == {doc.transactionSignature : doc \in Range(local)}

\* if (doc.transactionSignature): the signatures Method 1 looks up
Method1Lookups(local) ==
    {doc.transactionSignature : doc \in {d \in Range(local) : d.transactionSignature # 0}}

\* Method 1 keeps a cached document without a signature, one whose lookup
\* threw, and one whose transaction succeeded
Method1Keeps(doc, thrown) ==
    \/ doc.transactionSignature = 0
    \/ doc.transactionSignature \in thrown
    \/ Succeeded(doc.transactionSignature)

RECURSIVE Method1(_, _)
Method1(local, thrown) ==
    IF local = <<>> THEN <<>>
    ELSE IF Method1Keeps(Head(local), thrown)
            THEN <<Head(local)>> \o Method1(Tail(local), thrown)
            ELSE Method1(Tail(local), thrown)

\* the filter without the test of the action
AcceptsClaims(payload, H) ==
    /\ payload.app = "chaindocs"
    /\ payload.holder = H

\* the memo filter of Methods 2 and 3
Accepts(payload, H) ==
    /\ payload.app = "chaindocs"
    /\ payload.holder = H
    /\ payload.action # "claim"

\* blockchainDoc
BlockchainDoc(payload, sig) ==
    [documentId |-> payload.documentId, issuer |-> payload.issuer,
     holder |-> payload.holder, title |-> payload.title,
     issueDate |-> payload.issuedAt, credentialHash |-> payload.credentialHash,
     transactionSignature |-> sig]

\* documents.find(d => d.documentId === memoPayload.documentId)
Exists(documents, id) == id \in Ids(documents)

\* documents after the transaction of sig is processed; formats are the
\* instruction layouts the method reads
ScanTransaction(documents, sig, H, formats) ==
    IF /\ Succeeded(sig)
       /\ ledger[sig].format \in formats
       /\ Accepts(ParseMemoInstruction(ledger[sig]), H)
       /\ ~Exists(documents, ParseMemoInstruction(ledger[sig]).documentId)
       THEN Append(documents, BlockchainDoc(ParseMemoInstruction(ledger[sig]), sig))
       ELSE documents

RECURSIVE ScanTransactions(_, _, _, _)
ScanTransactions(documents, sigs, H, formats) ==
    IF sigs = <<>> THEN documents
    ELSE ScanTransactions(ScanTransaction(documents, Head(sigs), H, formats),
                          Tail(sigs), H, formats)

\* the first throw ends the loop over the signatures
FetchedUntilThrown(sigs, thrown) ==
    SubSeq(sigs, 1, Cardinality({i \in DOMAIN sigs :
                                    \A j \in 1..i : sigs[j] \notin thrown}))

\* the signatures whose getTransaction did not throw
Fetched(sigs, thrown) == SelectSeq(sigs, LAMBDA sig : sig \notin thrown)

\* [...new Set(issuerRegistry)]
RECURSIVE Unique(_)
Unique(seq) ==
    IF seq = <<>> THEN <<>>
    ELSE LET init == Unique(SubSeq(seq, 1, Len(seq) - 1))
             last == seq[Len(seq)]
         IN IF last \in Range(init) THEN init ELSE Append(init, last)

\* Method 2: the issuers whose signature request threw are skipped
RECURSIVE Method2(_, _, _, _, _)
Method2(documents, registry, H, failedIssuers, thrown) ==
    IF registry = <<>> THEN documents
    ELSE LET sigs == IF Head(registry) \in failedIssuers THEN <<>>
                     ELSE Fetched(GetSignaturesForAddress(Head(registry),
                                                          MAX_TXS_PER_ISSUER), thrown)
         IN Method2(ScanTransactions(documents, sigs, H, {"legacy", "compiled"}),
                    Tail(registry), H, failedIssuers, thrown)

\* Method 3: legacy instructions only
Method3(documents, H, failed, thrown) ==
    IF failed THEN documents
    ELSE ScanTransactions(documents,
             Fetched(FirstN(GetMemoSignatures(MemoSignatureLimit), MemoScanLimit), thrown),
             H, {"legacy"})

\* what a method was shown: the accepted memos among the fetched signatures
Shown(method, sigs, H, formats) ==
    {[method |-> method, sig |-> sig,
      documentId |-> ParseMemoInstruction(ledger[sig]).documentId,
      title |-> ParseMemoInstruction(ledger[sig]).title] :
        sig \in {x \in Range(sigs) : /\ Succeeded(x)
                                     /\ ledger[x].format \in formats
                                     /\ Accepts(ParseMemoInstruction(ledger[x]), H)}}

\* a request the ledger answered: getSignaturesForAddress of an address
\* (sig 0) or getTransaction of a signature (address "")
LedgerCall(method, address, sig) == [method |-> method, address |-> address, sig |-> sig]

\* the requests of Method 2 that were answered: the signatures of the issuers,
\* and their transactions
Answered2(registry, failedIssuers, thrown) ==
    {LedgerCall(2, a, 0) : a \in Range(registry) \ failedIssuers}
    \cup UNION {{LedgerCall(2, "", sig) :
                    sig \in Range(GetSignaturesForAddress(a, MAX_TXS_PER_ISSUER)) \ thrown} :
                a \in Range(registry) \ failedIssuers}

\* a request of Method 2 threw
Failed2(registry, failedIssuers, thrown) ==
    \/ failedIssuers \cap Range(registry) # {}
    \/ \E a \in Range(registry) \ failedIssuers :
          thrown \cap Range(GetSignaturesForAddress(a, MAX_TXS_PER_ISSUER)) # {}

\* the requests of Method 3 that were answered
Answered3(failed, thrown) ==
    IF failed THEN {}
    ELSE {LedgerCall(3, "memo", 0)}
         \cup {LedgerCall(3, "", sig) :
                  sig \in Range(FirstN(GetMemoSignatures(MemoSignatureLimit),
                                       MemoScanLimit)) \ thrown}

\* a request of Method 3 threw
Failed3(failed, thrown) ==
    \/ failed
    \/ thrown \cap Range(FirstN(GetMemoSignatures(MemoSignatureLimit), MemoScanLimit)) # {}

\* the table is replaced by the documents of the scan
WriteBackReplace(existingDocs, documents) == documents

\* "Save all discovered documents": only ids not stored yet are added
RECURSIVE WriteBack(_, _)
WriteBack(existingDocs, documents) ==
    IF documents = <<>> THEN existingDocs
    ELSE WriteBack(IF Head(documents).documentId \in Ids(existingDocs)
                      THEN existingDocs
                      ELSE Append(existingDocs, Head(documents)),
                   Tail(documents))

(***************************************************************************)
(* getHolderDocuments and getHolderDocumentsFromCache                      *)
(***************************************************************************)
\* docHolder.toLowerCase() === holderAddress.toLowerCase()
HolderMatches(doc, H) == ToLowerCase(doc.holder) = ToLowerCase(H)

\* allDocuments.filter(...) of getHolderDocuments(FromCache)
HolderDocs(allDocuments, H) == SelectSeq(allDocuments, LAMBDA doc : HolderMatches(doc, H))

\* allLocalDocs.filter(doc => doc.holder === holderAddress)
HolderLocalDocs(allLocalDocs, H) == SelectSeq(allLocalDocs, LAMBDA doc : doc.holder = H)

\* the list is built from the cache alone
MergeCacheOnly(holderDocs, blockchainDocs, existingIds) == holderDocs

\* the list is built from the scan result alone
MergeLedgerOnly(holderDocs, blockchainDocs, existingIds) == blockchainDocs

\* blockchainDocs.forEach(...) of getHolderDocuments
RECURSIVE Merge(_, _, _)
Merge(holderDocs, blockchainDocs, existingIds) ==
    IF blockchainDocs = <<>> THEN holderDocs
    ELSE LET doc == Head(blockchainDocs)
             existingIndex == FindIndex(holderDocs, doc.documentId)
         IN Merge(IF existingIndex > 0
                     THEN [holderDocs EXCEPT ![existingIndex] = Spread(@, doc)]
                     ELSE IF doc.documentId \notin existingIds
                             THEN Append(holderDocs, doc)
                             ELSE holderDocs,
                  Tail(blockchainDocs), existingIds)

\* the flags are those the record carries, and the writers of the table store
\* none (not the behaviour of the code)
AnnotateCarried(list, claimedDocs, mints) ==
    [i \in DOMAIN list |-> Spread([claimed |-> FALSE, nftMint |-> 0], list[i])]

\* "Mark claimed status"
Annotate(list, claimedDocs, mints) ==
    [i \in DOMAIN list |->
        Spread(list[i], [claimed |-> IsClaimed(claimedDocs, list[i].documentId),
                         nftMint |-> mints[list[i].documentId]])]

\* holderDocs.sort((a, b) => new Date(b.issueDate) - new Date(a.issueDate))
RECURSIVE SortNewestFirst(_)
SortNewestFirst(list) ==
    IF list = <<>> THEN <<>>
    ELSE LET init == SortNewestFirst(SubSeq(list, 1, Len(list) - 1))
             last == list[Len(list)]
             k == Cardinality({i \in DOMAIN init : init[i].issueDate >= last.issueDate})
         IN SubSeq(init, 1, k) \o <<last>> \o SubSeq(init, k + 1, Len(init))

\* getHolderDocuments up to the end of Method 1: the cache is read once, the
\* transactions Method 1 looks up are on the ledger for good
DStart ==
    /\ dpc = "idle"
    /\ \E H \in Connected :
       \E thrown \in SUBSET Method1Lookups(HolderLocalDocs(docs, H)) :
          /\ dholder' = H
          /\ dlookups' = Method1Lookups(HolderLocalDocs(docs, H))
          /\ dholderDocs' = HolderDocs(docs, H)
          /\ ddocuments' = Method1(HolderLocalDocs(docs, H), thrown)
          /\ dseen' = {}
          /\ dcalls' = {}
          /\ dfailed' = {}
    /\ dpc' = "method2"
    /\ dprev' = IF dprev.phase = "done" THEN [dprev EXCEPT !.phase = "second"]
                ELSE [NoPrev EXCEPT !.phase = "first"]
    /\ UNCHANGED <<sideVars, now, requests, thrVars, exeVars, cacheVars, ledger, opVars, outVars>>

\* Method 2: scan the known issuers
DMethod2 ==
    /\ dpc = "method2"
    /\ LET uniqueIssuers == FirstN(Unique(issuers), MAX_ISSUERS) IN
       \E failedIssuers \in SUBSET Range(uniqueIssuers), thrown \in SUBSET DOMAIN ledger :
          /\ ddocuments' = Method2(ddocuments, uniqueIssuers, dholder, failedIssuers, thrown)
          /\ dseen' = dseen \cup UNION
                {Shown(2, Fetched(GetSignaturesForAddress(a, MAX_TXS_PER_ISSUER), thrown),
                       dholder, {"legacy", "compiled"}) :
                    a \in Range(uniqueIssuers) \ failedIssuers}
          /\ dcalls' = dcalls \cup Answered2(uniqueIssuers, failedIssuers, thrown)
          /\ dfailed' = IF Failed2(uniqueIssuers, failedIssuers, thrown)
                           THEN dfailed \cup {2} ELSE dfailed
    /\ dpc' = "method3"
    /\ UNCHANGED dprev
    /\ UNCHANGED <<sideVars, now, requests, thrVars, exeVars, cacheVars, ledger, opVars,
                   dholder, dholderDocs, dlookups, outVars>>

\* Method 3: scan the recent memo transactions
DMethod3 ==
    /\ dpc = "method3"
    /\ \E failed \in BOOLEAN, thrown \in SUBSET DOMAIN ledger :
          /\ ddocuments' = Method3(ddocuments, dholder, failed, thrown)
          /\ dseen' = dseen \cup
                (IF failed THEN {}
                 ELSE Shown(3, Fetched(FirstN(GetMemoSignatures(MemoSignatureLimit),
                                              MemoScanLimit), thrown),
                            dholder, {"legacy"}))
          /\ dcalls' = dcalls \cup Answered3(failed, thrown)
          /\ dfailed' = IF Failed3(failed, thrown) THEN dfailed \cup {3} ELSE dfailed
    /\ dpc' = "save"
    /\ UNCHANGED dprev
    /\ UNCHANGED <<sideVars, now, requests, thrVars, exeVars, cacheVars, ledger, opVars,
                   dholder, dholderDocs, dlookups, outVars>>

\* the write-back of queryBlockchainDocuments, then the merge and the claimed
\* annotation of getHolderDocuments
DFinish ==
    /\ dpc = "save"
    /\ docs' = WriteBack(docs, ddocuments)
    /\ dresult' = Annotate(Merge(dholderDocs, ddocuments, Ids(dholderDocs)),
                           claimedIds, nftMint)
    /\ dfor' = dholder
    /\ dclaimed' = claimedIds
    /\ dpc' = "idle"
    \* the locals of the call are gone
    /\ dholder' = ""
    /\ dholderDocs' = <<>>
    /\ ddocuments' = <<>>
    /\ dseen' = {}
    /\ dcalls' = {}
    /\ dfailed' = {}
    /\ dlookups' = {}
    /\ dprev' = IF dprev.phase = "none" THEN NoPrev
                ELSE [phase |-> "done", holder |-> dholder, ids |-> Ids(dresult'),
                      calls |-> dcalls]
    /\ UNCHANGED <<sideVars, now, requests, thrVars, exeVars, issuers, claimedIds, nftMint,
                   claimTx, ledger, opVars>>

\* getHolderDocumentsFromCache
GetCached ==
    /\ \E H \in Connected :
          /\ dresult' = SortNewestFirst(Annotate(HolderDocs(docs, H), claimedIds, nftMint))
          /\ dfor' = H
    /\ dclaimed' = claimedIds
    /\ UNCHANGED dprev
    /\ UNCHANGED <<sideVars, now, requests, thrVars, exeVars, cacheVars, ledger, opVars, scanVars>>

(***************************************************************************)
(* loadDocuments (WalletGuide): what the holder is told about a scan       *)
(***************************************************************************)
\* setScanStatus(null) when the list has documents, the "No documents found"
\* text when it is empty; getHolderDocuments itself returns the list only
ScanStatus(holderDocs) ==
    IF Len(holderDocs) > 0 THEN "null" ELSE "No documents found"

InitDisc ==
    /\ now = 0
    /\ requests = <<>>
    /\ ThrottleIdle
    /\ ExecutorIdle
    /\ DiscIdle
    /\ SideIdle

NextDisc ==
    \/ IssueSend
    \/ IssueStore
    \/ IssueNotStored
    \/ Import
    \/ Claim
    \/ ClaimNotStored
    \/ ClaimElsewhere
    \/ DStart
    \/ DMethod2
    \/ DMethod3
    \/ DFinish
    \/ GetCached

SpecDisc == InitDisc /\ [][NextDisc]_vars

(***************************************************************************)
(* The holder page (WalletGuide): loadDocuments, the 15 s poll             *)
(* checkForNewDocuments and the notification handlers.  The list that      *)
(* getHolderDocuments hands to the page is drawn from PageResults.         *)
(***************************************************************************)
MaxPageDocs == 3
PageIds == 1..MaxPageDocs

\* a document as getHolderDocuments returns it to the page of holder "Ab"
PageDoc(id, claimed) ==
    Spread(DocumentRecord(id, "I2", "Ab", 1, id),
           [claimed |-> claimed, nftMint |-> IF claimed THEN id ELSE 0])

\* the lists getHolderDocuments can return: any ids, any order, any claim state
PageResults ==
    {list \in UNION {[1..n -> {PageDoc(id, c) : id \in PageIds, c \in BOOLEAN}] :
                         n \in 0..MaxPageDocs} :
        \A i, j \in DOMAIN list : i # j => list[i].documentId # list[j].documentId}

\* holderDocs.filter(doc => !previousDocumentIds.current.has(doc.documentId))
NewDocs(holderDocs, previousIds) ==
    SelectSeq(holderDocs, LAMBDA doc : doc.documentId \notin previousIds)

\* what checkForNewDocuments passes to setNewDocumentNotification: the newest
\* of the new documents, when that one is not claimed
Notified(holderDocs, previousIds) ==
    LET newDocs == SortNewestFirst(NewDocs(holderDocs, previousIds))
    IN IF Len(newDocs) > 0 /\ ~newDocs[1].claimed THEN {newDocs[1]} ELSE {}

\* the first useEffect: a non-empty list of getHolderDocumentsFromCache is
\* shown at once and becomes the previous ids
ShowCached ==
    /\ pageOp = "none"
    /\ \E cachedDocs \in PageResults :
          /\ cachedDocs = SortNewestFirst(cachedDocs)
          /\ Len(cachedDocs) > 0
          /\ pageDocuments' = cachedDocs
          /\ previousDocumentIds' = Ids(cachedDocs)
    /\ pageOp' = "cached"
    /\ UNCHANGED <<newDocumentNotification, polled, pnotified>>
    /\ UNCHANGED <<now, requests, thrVars, exeVars, discVars, queryVars, verifyVars,
                   sessVars, writeVars>>

\* loadDocuments
LoadDocuments ==
    /\ \E holderDocs \in PageResults :
          /\ polled' = holderDocs
          /\ previousDocumentIds' = Ids(holderDocs)
          /\ pageDocuments' = SortNewestFirst(holderDocs)
    /\ pageOp' = "load"
    /\ pnotified' = {}
    /\ UNCHANGED newDocumentNotification
    /\ UNCHANGED <<now, requests, thrVars, exeVars, discVars, queryVars, verifyVars,
                   sessVars, writeVars>>

\* checkForNewDocuments
CheckForNewDocuments ==
    /\ \E holderDocs \in PageResults :
          LET shown == Notified(holderDocs, previousDocumentIds)
          IN /\ polled' = holderDocs
             /\ pnotified' = shown
             /\ newDocumentNotification' =
                   IF shown = {} THEN newDocumentNotification
                   ELSE CHOOSE doc \in shown : TRUE
             /\ pageDocuments' = SortNewestFirst(holderDocs)
             /\ previousDocumentIds' = Ids(holderDocs)
    /\ pageOp' = "poll"
    /\ UNCHANGED <<now, requests, thrVars, exeVars, discVars, queryVars, verifyVars,
                   sessVars, writeVars>>

\* handleNotificationDismiss
HandleNotificationDismiss ==
    /\ newDocumentNotification # NoDocument
    /\ newDocumentNotification' = NoDocument
    /\ pageOp' = "dismiss"
    /\ pnotified' = {}
    /\ UNCHANGED <<previousDocumentIds, pageDocuments, polled>>
    /\ UNCHANGED <<now, requests, thrVars, exeVars, discVars, queryVars, verifyVars,
                   sessVars, writeVars>>

\* handleNotificationClaim(document): loadDocuments, then the notification
\* is dismissed and the id joins the previous ids
HandleNotificationClaim ==
    /\ newDocumentNotification # NoDocument
    /\ \E holderDocs \in PageResults :
          /\ polled' = holderDocs
          /\ previousDocumentIds' =
                Ids(holderDocs) \cup {newDocumentNotification.documentId}
          /\ pageDocuments' = SortNewestFirst(holderDocs)
    /\ newDocumentNotification' = NoDocument
    /\ pageOp' = "claim"
    /\ pnotified' = {}
    /\ UNCHANGED <<now, requests, thrVars, exeVars, discVars, queryVars, verifyVars,
                   sessVars, writeVars>>

InitPage ==
    /\ now = 0
    /\ requests = <<>>
    /\ ThrottleIdle
    /\ ExecutorIdle
    /\ DiscIdle
    /\ SideIdle

NextPage ==
    \/ ShowCached
    \/ LoadDocuments
    \/ CheckForNewDocuments
    \/ HandleNotificationDismiss
    \/ HandleNotificationClaim

SpecPage == InitPage /\ [][NextPage]_vars

(***************************************************************************)
(* queryBlockchainDocuments request by request: every ledger read is one   *)
(* rateLimitedRequest, every attempt of it one globalRateLimiter.execute.  *)
(* The timers between the steps (delay, the throttle wait, the backoff     *)
(* sleep) all fire and are not counted.                                    *)
(***************************************************************************)
MaxLocalDocs == 2
\* uniqueIssuers.length: none, one, two, or more than MAX_ISSUERS
RegistrySizes == {0, 1, 2, MAX_ISSUERS + 1}
\* the transactions the ledger has for an address
TxCounts == {0, 1, 2, MAX_TXS_PER_ISSUER + 10}

\* what a ledger call can throw: a 429 or a failure of another kind
QueryErrors ==
    {[message |-> Msg429, header |-> NoHeader, call |-> 0],
     [message |-> MsgNotFound, header |-> NoHeader, call |-> 0]}
QueryOutcomes ==
    {[ok |-> TRUE, err |-> NoError]} \cup {[ok |-> FALSE, err |-> e] : e \in QueryErrors}

\* i < uniqueIssuers.length, without the cap (not the behaviour of the code)
IssuersToScanAll(n) == n
\* i < Math.min(uniqueIssuers.length, MAX_ISSUERS)
IssuersToScan(n) == Min(n, MAX_ISSUERS)

\* i < Math.min(recentSignatures.length, 20)
MemoTxsToScan(n) == Min(n, MemoScanLimit)

\* the retried attempt calls requestFn at once (not the behaviour of the code)
RetryStepDirect == "invoke"
\* continue: the next attempt is globalRateLimiter.execute(requestFn) again
RetryStep == "acquire"

\* a call of rateLimitedRequest(requestFn, retries, baseDelay) begins
QRequest(retries) ==
    /\ qstep' = "acquire"
    /\ qretries' = retries
    /\ qattempt' = 0
    /\ qslots' = 0
    /\ qcalls' = 0

\* the loops of queryBlockchainDocuments between two requests
QBegin ==
    /\ qpc # "done"
    /\ qstep = "next"
    /\ \/ /\ qpc = "m1"
          /\ qleft > 0
          /\ \E hasSignature \in BOOLEAN :
                IF hasSignature
                THEN /\ QRequest(2)
                     /\ qunit' = 0
                     /\ UNCHANGED qleft
                ELSE /\ qleft' = qleft - 1
                     /\ UNCHANGED <<qstep, qretries, qattempt, qslots, qcalls, qunit>>
          /\ UNCHANGED <<qpc, qi, qsigs, qj>>
       \/ /\ qpc = "m1"
          /\ qleft = 0
          /\ qpc' = "m2sig"
          /\ qi' = 0
          /\ UNCHANGED <<qstep, qleft, qsigs, qj, qretries, qattempt, qslots, qcalls,
                         qunit>>
       \/ /\ qpc = "m2sig"
          /\ qi < IssuersToScan(qregistry)
          /\ QRequest(3)
          /\ qunit' = 0
          /\ UNCHANGED <<qpc, qleft, qi, qsigs, qj>>
       \/ /\ qpc = "m2sig"
          /\ ~(qi < IssuersToScan(qregistry))
          /\ qpc' = "m3sig"
          /\ QRequest(3)
          /\ qunit' = 0
          /\ UNCHANGED <<qleft, qi, qsigs, qj>>
       \/ /\ qpc = "m2tx"
          /\ qj < qsigs
          /\ QRequest(2)
          /\ UNCHANGED <<qpc, qleft, qi, qsigs, qj, qunit>>
       \/ /\ qpc = "m2tx"
          /\ ~(qj < qsigs)
          /\ qpc' = "m2sig"
          /\ qi' = qi + 1
          /\ UNCHANGED <<qstep, qleft, qsigs, qj, qretries, qattempt, qslots, qcalls,
                         qunit>>
       \/ /\ qpc = "m3tx"
          /\ qj < MemoTxsToScan(qsigs)
          /\ QRequest(2)
          /\ UNCHANGED <<qpc, qleft, qi, qsigs, qj, qunit>>
       \/ /\ qpc = "m3tx"
          /\ ~(qj < MemoTxsToScan(qsigs))
          /\ qpc' = "done"
          /\ UNCHANGED <<qstep, qleft, qi, qsigs, qj, qretries, qattempt, qslots,
                         qcalls, qunit>>
    /\ UNCHANGED qregistry
    /\ UNCHANGED <<now, requests, thrVars, exeVars, discVars, pageVars, verifyVars,
                   sessVars, writeVars>>

\* globalRateLimiter.wait() of the attempt has recorded its timestamp
QAcquire ==
    /\ qstep = "acquire"
    /\ qstep' = "invoke"
    /\ qslots' = qslots + 1
    /\ UNCHANGED <<qpc, qleft, qregistry, qi, qsigs, qj, qretries, qattempt, qcalls,
                   qunit>>
    /\ UNCHANGED <<now, requests, thrVars, exeVars, discVars, pageVars, verifyVars,
                   sessVars, writeVars>>

\* the request is over (it returned or it threw into the catch around it):
\* where the scan goes on
QAfter(returned, limit) ==
    CASE qpc = "m1" ->
            /\ qleft' = qleft - 1
            /\ UNCHANGED <<qpc, qi, qsigs, qj>>
      [] qpc = "m2sig" /\ returned ->
            /\ \E n \in TxCounts : qsigs' = Min(n, limit)
            /\ qj' = 0
            /\ qpc' = "m2tx"
            /\ UNCHANGED <<qleft, qi>>
      [] qpc = "m2sig" /\ ~returned ->
            /\ qi' = qi + 1
            /\ UNCHANGED <<qpc, qleft, qsigs, qj>>
      [] qpc = "m3sig" /\ returned ->
            /\ \E n \in TxCounts : qsigs' = Min(n, limit)
            /\ qj' = 0
            /\ qpc' = "m3tx"
            /\ UNCHANGED <<qleft, qi>>
      [] qpc = "m3sig" /\ ~returned ->
            /\ qpc' = "done"
            /\ UNCHANGED <<qleft, qi, qsigs, qj>>
      [] OTHER ->
            /\ qj' = qj + 1
            /\ UNCHANGED <<qpc, qleft, qi, qsigs>>

\* the limit option the signature requests pass to the ledger
SignatureLimit == IF qpc = "m2sig" THEN MAX_TXS_PER_ISSUER ELSE MemoSignatureLimit

\* requestFn calls the ledger; rateLimitedRequest returns, retries or throws
QInvoke ==
    /\ qstep = "invoke"
    /\ qcalls' = qcalls + 1
    /\ qunit' = qunit + 1
    /\ \E response \in QueryOutcomes :
          IF response.ok
          THEN /\ qstep' = "next"
               /\ QAfter(TRUE, SignatureLimit)
               /\ UNCHANGED qattempt
          ELSE IF IsRateLimitError(response.err) /\ MayRetry(qattempt, qretries)
          THEN /\ qstep' = RetryStep
               /\ qattempt' = qattempt + 1
               /\ UNCHANGED <<qpc, qleft, qi, qsigs, qj>>
          ELSE /\ qstep' = "next"
               /\ QAfter(FALSE, SignatureLimit)
               /\ UNCHANGED qattempt
    /\ UNCHANGED <<qregistry, qretries, qslots>>
    /\ UNCHANGED <<now, requests, thrVars, exeVars, discVars, pageVars, verifyVars,
                   sessVars, writeVars>>

\* queryBlockchainDocuments is called with some cache and some registry
InitQuery ==
    /\ now = 0
    /\ requests = <<>>
    /\ ThrottleIdle
    /\ ExecutorIdle
    /\ DiscIdle
    /\ PageIdle
    /\ VerifyIdle
    /\ SessionIdle
    /\ WriteIdle
    /\ qpc = "m1"
    /\ qstep = "next"
    /\ qleft \in 0..MaxLocalDocs
    /\ qregistry \in RegistrySizes
    /\ qi = 0
    /\ qsigs = 0
    /\ qj = 0
    /\ qretries = 0
    /\ qattempt = 0
    /\ qslots = 0
    /\ qcalls = 0
    /\ qunit = 0

NextQuery == QBegin \/ QAcquire \/ QInvoke

SpecQuery == InitQuery /\ [][NextQuery]_vars

\* every pending timer fires and every request is answered
FairQuery == SpecQuery /\ WF_vars(NextQuery)

(***************************************************************************)
(* verifyDocument, on the Cache Store as issueDocument and                 *)
(* importDocumentFromShareableData leave it                                *)
(***************************************************************************)
\* the result of verifyDocument; allDocuments.find takes the first entry with
\* the id
VerifyResult(allDocuments, credentialHash, documentId) ==
    IF FindIndex(allDocuments, documentId) = 0
    THEN [valid |-> FALSE, error |-> "Document not found",
          document |-> Verified(NoDocument)]
    ELSE LET document == allDocuments[FindIndex(allDocuments, documentId)]
         IN IF document.credentialHash = credentialHash
            THEN [valid |-> TRUE, error |-> "", document |-> Verified(document)]
            ELSE [valid |-> FALSE, error |-> "Invalid credentials",
                  document |-> Verified(NoDocument)]

VerifyDocument ==
    /\ \E credentialHash \in {HashOf(v) : v \in Versions}, documentId \in DocIds :
          /\ vhash' = credentialHash
          /\ vid' = documentId
          /\ vresult' = VerifyResult(docs, credentialHash, documentId)
    /\ UNCHANGED <<now, requests, thrVars, exeVars, discVars, pageVars, queryVars,
                   sessVars, writeVars>>

InitVerify ==
    /\ now = 0
    /\ requests = <<>>
    /\ ThrottleIdle
    /\ ExecutorIdle
    /\ DiscIdle
    /\ SideIdle

NextVerify ==
    \/ IssueSend
    \/ IssueStore
    \/ IssueNotStored
    \/ Import
    \/ VerifyDocument

SpecVerify == InitVerify /\ [][NextVerify]_vars

(***************************************************************************)
(* The scans on a ledger that other clients write to as well: memos that   *)
(* are not JSON, payloads that lack keys, and issuances sent as versioned  *)
(* transactions, whose message lists compiledInstructions.                 *)
(***************************************************************************)
\* the keys a foreign payload may lack
LackedKeys == {"app", "holder", "title", "credentialHash"}

\* payload without one of its keys
Lacking(payload, key) ==
    CASE key = "app" -> [payload EXCEPT !.app = Absent]
      [] key = "holder" -> [payload EXCEPT !.holder = Absent]
      [] key = "title" -> [payload EXCEPT !.title = Absent]
      [] key = "credentialHash" -> [payload EXCEPT !.credentialHash = Absent]

\* the memo transactions another client can have confirmed for document id:
\* text that is not JSON, an issuance payload lacking a key, and a complete
\* issuance sent as a versioned transaction
ForeignTxs(id, w, h) ==
    LET payload == IssuePayload(DocumentRecord(id, w, h, 1, 0)) IN
    {[MemoTx(w, NoPayload) EXCEPT !.json = FALSE],
     [MemoTx(w, payload) EXCEPT !.format = "compiled"]}
    \cup {MemoTx(w, Lacking(payload, key)) : key \in LackedKeys}

\* a memo transaction of another client is confirmed
MemoElsewhere ==
    /\ Len(ledger) < MaxLedger
    /\ DocIds \ UsedIds # {}
    /\ \E w \in Wallets, h \in Holders : \E tx \in ForeignTxs(FreshId, w, h) :
          ledger' = Append(ledger, tx)
    /\ dprev' = NoPrev
    /\ UNCHANGED <<sideVars, now, requests, thrVars, exeVars, cacheVars, opVars, scanVars,
                   outVars>>

InitScan ==
    /\ now = 0
    /\ requests = <<>>
    /\ ThrottleIdle
    /\ ExecutorIdle
    /\ DiscIdle
    /\ SideIdle

NextScan ==
    \/ IssueSend
    \/ IssueStore
    \/ IssueNotStored
    \/ MemoElsewhere
    \/ DStart
    \/ DMethod2
    \/ DMethod3
    \/ DFinish

SpecScan == InitScan /\ [][NextScan]_vars

(***************************************************************************)
(* One session of the holder page (WalletGuide) on the Cache Store and the *)
(* ledger: the page mounts, its 15 s interval and its handlers start       *)
(* getHolderDocuments calls, and the calls resolve in any order.  A call   *)
(* reads the cache when it starts; its scans are taken at the moment it    *)
(* resolves, with every request answered or every request failing.         *)
(***************************************************************************)
\* getHolderDocuments calls in flight, firings of the interval and
\* transactions on the ledger in one session
MaxFlight == 2
MaxPolls == 2
MaxSessionLedger == 3

\* getHolderDocuments(publicKey, connection) up to its first await and through
\* Method 1: the cached lists are read; kind is the caller, id the document
\* handleNotificationClaim was called with
GetHolderDocumentsCall(kind, id, H) ==
    [kind |-> kind, id |-> id, holder |-> H,
     holderDocs |-> HolderDocs(docs, H),
     documents |-> Method1(HolderLocalDocs(docs, H), {})]

\* documents of queryBlockchainDocuments after Methods 2 and 3
ScanDocuments(call, failed) ==
    LET uniqueIssuers == FirstN(Unique(issuers), MAX_ISSUERS)
    IN Method3(Method2(call.documents, uniqueIssuers, call.holder,
                       IF failed THEN Range(uniqueIssuers) ELSE {}, {}),
               call.holder, failed, {})

\* the list getHolderDocuments resolves with
ResolvedList(call, documents) ==
    Annotate(Merge(call.holderDocs, documents, Ids(call.holderDocs)), claimedIds, nftMint)

Remove(seq, k) == SubSeq(seq, 1, k - 1) \o SubSeq(seq, k + 1, Len(seq))

\* a caller may start a call
MayStart == Len(sflight) < MaxFlight

\* the useEffect of the page: the cached list is shown when it is not empty,
\* loadDocuments is called and the interval is set
SessionMount ==
    /\ ~smounted
    /\ \E H \in Connected :
          LET cachedDocs == SortNewestFirst(Annotate(HolderDocs(docs, H), claimedIds, nftMint))
          IN /\ pageDocuments' = IF Len(cachedDocs) > 0 THEN cachedDocs ELSE pageDocuments
             /\ previousDocumentIds' =
                   IF Len(cachedDocs) > 0 THEN Ids(cachedDocs) ELSE previousDocumentIds
             /\ sflight' = Append(sflight, GetHolderDocumentsCall("load", 0, H))
    /\ smounted' = TRUE
    /\ pageOp' = "cached"
    /\ UNCHANGED <<newDocumentNotification, polled, pnotified, spolls, sshow, sclaiming,
                   sreload, sreport, sannounced>>
    /\ UNCHANGED <<now, requests, thrVars, exeVars, discVars, queryVars, verifyVars, writeVars>>

\* the interval fires: checkForNewDocuments calls getHolderDocuments
IntervalFires ==
    /\ smounted
    /\ MayStart
    /\ spolls < MaxPolls
    /\ \E H \in Connected :
          sflight' = Append(sflight, GetHolderDocumentsCall("poll", 0, H))
    /\ spolls' = spolls + 1
    /\ UNCHANGED <<pageVars, smounted, sshow, sclaiming, sreload, sreport, sannounced>>
    /\ UNCHANGED <<now, requests, thrVars, exeVars, discVars, queryVars, verifyVars, writeVars>>

\* a call of getHolderDocuments resolves and its caller goes on: loadDocuments
\* (lines 296-303), checkForNewDocuments (lines 239-270), loadDocuments and
\* then the rest of handleClaimDocument, or loadDocuments and then the rest
\* of handleNotificationClaim
GetHolderDocumentsResolves ==
    /\ \E k \in DOMAIN sflight, failed \in BOOLEAN :
          LET call == sflight[k]
              documents == ScanDocuments(call, failed)
              holderDocs == ResolvedList(call, documents)
              shown == IF call.kind = "poll"
                          THEN Notified(holderDocs, previousDocumentIds) ELSE {}
          IN /\ docs' = WriteBack(docs, documents)
             /\ sflight' = Remove(sflight, k)
             /\ polled' = holderDocs
             /\ pageDocuments' = SortNewestFirst(holderDocs)
             /\ previousDocumentIds' =
                   IF call.kind = "notification" THEN Ids(holderDocs) \cup {call.id}
                   ELSE Ids(holderDocs)
             /\ pnotified' = shown
             /\ newDocumentNotification' =
                   CASE call.kind = "notification" -> NoDocument
                     [] shown # {} -> CHOOSE doc \in shown : TRUE
                     [] OTHER -> newDocumentNotification
             /\ sshow' = IF shown # {} /\ newDocumentNotification = NoDocument
                            THEN TRUE ELSE sshow
             /\ sannounced' =
                   IF shown # {}
                      THEN Append(sannounced, (CHOOSE doc \in shown : TRUE).documentId)
                      ELSE sannounced
             /\ sclaiming' = IF call.kind = "claim" THEN 0 ELSE sclaiming
             /\ pageOp' = call.kind
    /\ UNCHANGED <<smounted, spolls, sreload, sreport>>
    /\ UNCHANGED <<now, requests, thrVars, exeVars, queryVars, verifyVars, writeVars, issuers,
                   claimedIds, nftMint, claimTx, ledger, opVars, scanVars, outVars, dprev>>

\* handleClaimDocument(document) on a card of the list shown, whose button is
\* disabled while claiming is its id: the claim succeeds, then loadDocuments
\* is called
HandleClaimDocument ==
    /\ MayStart
    /\ Len(ledger) < MaxSessionLedger
    /\ \E H \in Connected : \E i \in DOMAIN pageDocuments :
          LET id == pageDocuments[i].documentId IN
          /\ ~pageDocuments[i].claimed
          /\ sclaiming # id
          /\ sclaiming' = id
          /\ ledger' = Append(ledger, MemoTx(H, ClaimPayload(id, H)))
          /\ claimedIds' = ClaimedAfter(claimedIds, id)
          /\ nftMint' = [nftMint EXCEPT ![id] = Len(ledger) + 1]
          /\ claimTx' = [claimTx EXCEPT ![id] = Len(ledger) + 1]
          /\ sflight' = Append(sflight, GetHolderDocumentsCall("claim", 0, H))
    /\ UNCHANGED <<pageVars, smounted, spolls, sshow, sreload, sreport, sannounced>>
    /\ UNCHANGED <<now, requests, thrVars, exeVars, queryVars, verifyVars, writeVars, docs, issuers,
                   opVars, scanVars, outVars, dprev>>

\* handleClaimNow of DocumentNotification: the claim of newDocument succeeds,
\* the notification hides itself and onClaim (handleNotificationClaim) calls
\* loadDocuments
HandleClaimNow ==
    /\ MayStart
    /\ Len(ledger) < MaxSessionLedger
    /\ newDocumentNotification # NoDocument
    /\ sshow
    /\ \E H \in Connected :
          LET id == newDocumentNotification.documentId IN
          /\ ledger' = Append(ledger, MemoTx(H, ClaimPayload(id, H)))
          /\ claimedIds' = ClaimedAfter(claimedIds, id)
          /\ nftMint' = [nftMint EXCEPT ![id] = Len(ledger) + 1]
          /\ claimTx' = [claimTx EXCEPT ![id] = Len(ledger) + 1]
          /\ sflight' = Append(sflight, GetHolderDocumentsCall("notification", id, H))
    /\ sshow' = FALSE
    /\ UNCHANGED <<pageVars, smounted, spolls, sclaiming, sreload, sreport, sannounced>>
    /\ UNCHANGED <<now, requests, thrVars, exeVars, queryVars, verifyVars, writeVars, docs, issuers,
                   opVars, scanVars, outVars, dprev>>

\* handleNotificationDismiss, from the buttons or the 30 s timer of the
\* notification
NotificationDismissed ==
    /\ newDocumentNotification # NoDocument
    /\ newDocumentNotification' = NoDocument
    /\ sshow' = FALSE
    /\ pageOp' = "dismiss"
    /\ UNCHANGED <<previousDocumentIds, pageDocuments, polled, pnotified, smounted,
                   sflight, spolls, sclaiming, sreload, sreport, sannounced>>
    /\ UNCHANGED <<now, requests, thrVars, exeVars, discVars, queryVars, verifyVars, writeVars>>

\* shareable data without one of the keys importDocumentFromShareableData
\* asks for
Incomplete(rec) ==
    {[rec EXCEPT !.documentId = 0], [rec EXCEPT !.issuer = ""], [rec EXCEPT !.holder = ""]}

\* what the holder can paste into the import dialog: the data of a document
\* that is not on the ledger, the data exported for a document on the ledger,
\* for the holder it names or for another, and any of these without a key
Complete ==
    Unlisted \cup
    UNION {{[Exported(i) EXCEPT !.holder = h] : h \in Holders} : i \in Issuances}

PastedData == Complete \cup UNION {Incomplete(rec) : rec \in Complete}

\* !documentData.documentId || !documentData.issuer || !documentData.holder
IsInvalid(rec) == rec.documentId = 0 \/ rec.issuer = "" \/ rec.holder = ""

\* result.document.holder !== publicKey.toString()
OtherWallet(rec, H) == rec.holder # H

\* handleImportDocument(code): importDocumentFromShareableData runs first;
\* then the holder is compared, the list reloaded from localStorage and the
\* background loadDocuments scheduled
HandleImportDocument ==
    /\ smounted
    /\ nimports < MaxImports
    /\ \E H \in Connected : \E rec \in PastedData :
          IF IsInvalid(rec)
             THEN /\ sreport' = "error"
                  /\ UNCHANGED <<docs, issuers, pageDocuments, previousDocumentIds, sreload>>
             ELSE /\ docs' = Upsert(docs, rec)
                  /\ issuers' = Register(issuers, rec.issuer)
                  /\ IF OtherWallet(rec, H)
                        THEN /\ sreport' = "different wallet"
                             /\ UNCHANGED <<pageDocuments, previousDocumentIds, sreload>>
                        ELSE /\ pageDocuments' =
                                   Annotate(SortNewestFirst(HolderDocs(docs', H)),
                                            claimedIds, nftMint)
                             /\ previousDocumentIds' = Ids(pageDocuments')
                             /\ sreport' = "imported"
                             /\ sreload' = TRUE
    /\ nimports' = nimports + 1
    /\ pageOp' = "import"
    /\ UNCHANGED <<newDocumentNotification, polled, pnotified, smounted, sflight, spolls,
                   sshow, sclaiming, sannounced>>
    /\ UNCHANGED <<now, requests, thrVars, exeVars, queryVars, verifyVars, writeVars, claimedIds,
                   nftMint, claimTx, ledger, ipc, irec, scanVars, outVars, dprev>>

\* the setTimeout of handleImportDocument fires: loadDocuments
BackgroundReload ==
    /\ sreload
    /\ MayStart
    /\ \E H \in Connected :
          sflight' = Append(sflight, GetHolderDocumentsCall("load", 0, H))
    /\ sreload' = FALSE
    /\ UNCHANGED <<pageVars, smounted, spolls, sshow, sclaiming, sreport, sannounced>>
    /\ UNCHANGED <<now, requests, thrVars, exeVars, discVars, queryVars, verifyVars, writeVars>>

InitSession ==
    /\ now = 0
    /\ requests = <<>>
    /\ ThrottleIdle
    /\ ExecutorIdle
    /\ DiscIdle
    /\ SideIdle

\* a session with the interval and the claim buttons
NextSession ==
    \/ IssueSend
    \/ IssueStore
    \/ IssueNotStored
    \/ SessionMount
    \/ IntervalFires
    \/ GetHolderDocumentsResolves
    \/ HandleClaimDocument
    \/ HandleClaimNow
    \/ NotificationDismissed

SpecSession == InitSession /\ [][NextSession]_vars

\* a session with the import dialog
NextImport ==
    \/ IssueSend
    \/ IssueStore
    \/ IssueNotStored
    \/ SessionMount
    \/ HandleImportDocument
    \/ BackgroundReload
    \/ GetHolderDocumentsResolves

SpecImport == InitSession /\ [][NextImport]_vars

(***************************************************************************)
(* issueDocument and claimDocumentAsNFT as whole calls that may fail: the  *)
(* wallet rejects, sendTransaction throws, or confirmTransaction throws.   *)
(***************************************************************************)
\* where a call can throw; "none" is the call that goes through
FailPoints == {"wallet", "send", "confirm", "none"}

\* sendTransaction resolved: the memo is on the ledger
Sent(failAt) == failAt \in {"confirm", "none"}

\* the lines after sendTransaction run without waiting for the confirmation
\* (not the behaviour of the code)
ConfirmedWhenSent(failAt) == failAt \in {"confirm", "none"}

\* confirmTransaction resolved: the lines after it run
Confirmed(failAt) == failAt = "none"

\* issueDocument(connection, issuerWallet, holderPublicKey, documentData)
IssueDocument ==
    /\ DocIds \ UsedIds # {}
    /\ Len(ledger) < MaxSessionLedger
    /\ \E w \in Wallets, h \in Holders, failAt \in FailPoints :
          LET rec == DocumentRecord(FreshId, w, h, 1, Len(ledger) + 1) IN
          /\ ledger' = IF Sent(failAt) THEN Append(ledger, MemoTx(w, IssuePayload(rec)))
                       ELSE ledger
          /\ docs' = IF Confirmed(failAt) THEN Append(docs, rec) ELSE docs
          /\ issuers' = IF Confirmed(failAt) THEN Register(issuers, rec.issuer) ELSE issuers
          /\ wresult' = [op |-> "issue", step |-> failAt, success |-> failAt = "none"]
    /\ UNCHANGED <<claimedIds, nftMint, claimTx, opVars, scanVars, outVars, dprev>>
    /\ UNCHANGED <<now, requests, thrVars, exeVars, pageVars, queryVars, verifyVars, sessVars>>

\* claimDocumentAsNFT(connection, holderWallet, document) for a stored document
ClaimDocumentAsNFT ==
    /\ Len(ledger) < MaxSessionLedger
    /\ \E H \in Connected, id \in Ids(docs), failAt \in FailPoints :
          /\ ledger' = IF Sent(failAt) THEN Append(ledger, MemoTx(H, ClaimPayload(id, H)))
                       ELSE ledger
          /\ claimedIds' = IF Confirmed(failAt) THEN ClaimedAfter(claimedIds, id)
                           ELSE claimedIds
          /\ nftMint' = IF Confirmed(failAt) THEN [nftMint EXCEPT ![id] = Len(ledger) + 1]
                        ELSE nftMint
          /\ claimTx' = IF Confirmed(failAt) THEN [claimTx EXCEPT ![id] = Len(ledger) + 1]
                        ELSE claimTx
          /\ wresult' = [op |-> "claim", step |-> failAt, success |-> failAt = "none"]
    /\ UNCHANGED <<docs, issuers, opVars, scanVars, outVars, dprev>>
    /\ UNCHANGED <<now, requests, thrVars, exeVars, pageVars, queryVars, verifyVars, sessVars>>

InitWrites ==
    /\ now = 0
    /\ requests = <<>>
    /\ ThrottleIdle
    /\ ExecutorIdle
    /\ DiscIdle
    /\ SideIdle

NextWrites == IssueDocument \/ ClaimDocumentAsNFT

SpecWrites == InitWrites /\ [][NextWrites]_vars

(***************************************************************************)
(* C1  Throttle bound: in every trailing 1000 ms window the fake ledger    *)
(*     receives at most 8 calls.                                           *)
(***************************************************************************)
CallsInWindow(t) ==
    Cardinality({i \in 1..Len(ledgerCalls) :
                    ledgerCalls[i] <= t /\ t - ledgerCalls[i] < timeWindow})

C1_ThrottleBound ==
    \A i \in 1..Len(ledgerCalls) : CallsInWindow(ledgerCalls[i]) <= maxRequests

(***************************************************************************)
(* C2  No request is dropped: every execute(fn) call records exactly one   *)
(*     timestamp and invokes fn exactly once, and does so eventually       *)
(*     (timers fire, time advances, finitely many callers).                *)
(***************************************************************************)
Served(c) == recorded[c] = 1 /\ invoked[c] = 1

C2_NeverDropped ==
    /\ [](\A c \in Callers : recorded[c] <= 1 /\ invoked[c] <= 1
                               /\ invoked[c] <= recorded[c])
    /\ []<>(\A c \in 1..started : Served(c))

\* all callers were served, the last ones after sleeping in wait()
C2_Witness ==
    /\ started = MaxCallers
    /\ \A c \in Callers : cpc[c] = "done" /\ Served(c)
    /\ now > timeWindow

(***************************************************************************)
(* Observers of one rateLimitedRequest call                                *)
(***************************************************************************)
ExecOver == epc \in {"returned", "thrown"}
\* the rate-limit signatures, spelled as in the source
RateLimitSignatures ==
    {<<"429">>, <<"Too", "Many", "Requests">>, <<"rate", "limit">>, <<"slow", "down">>}
CarriesSignature(err) == \E sig \in RateLimitSignatures : Includes(err.message, sig)
\* the i-th call of requestFn threw a rate-limit error
Throttled(i) == ~eresponses[i].ok /\ CarriesSignature(eresponses[i].err)
\* the i-th call of requestFn threw another error
FailedOther(i) == ~eresponses[i].ok /\ ~CarriesSignature(eresponses[i].err)
\* the i-th call threw a rate-limit error that carries no Retry-After hint
ThrottledNoHint(i) ==
    /\ Throttled(i)
    /\ eresponses[i].err.header = NoHeader
    /\ HintPositions(eresponses[i].err.message) = {}

C4_NonRetriable ==
    \A i \in 1..Len(eresponses) :
        FailedOther(i)
        => /\ i = Len(eresponses)
           /\ epc = "thrown"
           /\ eresult = [kind |-> "error", call |-> i, err |-> eresponses[i].err]
           /\ Len(eslept) = i - 1

\* scenario 5: "Transaction not found" at the first call, retries = 3
C4_Witness ==
    /\ eretries = 3
    /\ Len(eresponses) = 1
    /\ FailedOther(1)
    /\ eresponses[1].err.message = MsgNotFound
    /\ epc = "thrown"

DiscoverReturns == dpc = "save" /\ dpc' = "idle"

\* positions of the entries with documentId id
EntriesOf(list, id) == {i \in DOMAIN list : list[i].documentId = id}

(***************************************************************************)
(* C7  Holder isolation: every document in the list returned by            *)
(* getHolderDocuments(H, connection) has holder exactly H, also when the   *)
(* cache holds holders that differ from H in letter case only.             *)
(***************************************************************************)
C7_HolderIsolation ==
    [][DiscoverReturns =>
          \A i \in DOMAIN dresult' : dresult'[i].holder = dfor']_vars

(***************************************************************************)
(* C8  Dedup invariant: the list returned by getHolderDocuments never      *)
(* holds two entries with the same documentId.                             *)
(***************************************************************************)
C8_Dedup ==
    [][DiscoverReturns =>
          \A id \in DocIds : Cardinality(EntriesOf(dresult', id)) <= 1]_vars

(***************************************************************************)
(* C9  Ledger data wins on merge: when the cache held one document X of    *)
(* holder H with title T1 as the call started and the issuer scan was      *)
(* shown an issuance memo for X and H with another title T2, the returned  *)
(* list has exactly one entry X and its title is T2.                       *)
(***************************************************************************)
C9_LedgerWins ==
    [][DiscoverReturns =>
          \A id \in DocIds : \A seen \in dseen :
             (/\ Cardinality(EntriesOf(dholderDocs, id)) = 1
              /\ \A i \in EntriesOf(dholderDocs, id) :
                    /\ dholderDocs[i].holder = dholder
                    /\ dholderDocs[i].title # seen.title
              /\ seen.method = 2
              /\ seen.documentId = id)
             => /\ Cardinality(EntriesOf(dresult', id)) = 1
                /\ \A i \in EntriesOf(dresult', id) : dresult'[i].title = seen.title]_vars

(***************************************************************************)
(* C10  Claim monotonicity: a documentId never leaves the claimed set, and *)
(* every list returned while the id is in the set reports the document     *)
(* with claimed = true.                                                    *)
(***************************************************************************)
ClaimedReported ==
    \A i \in DOMAIN dresult :
       dresult[i].documentId \in Range(dclaimed) => dresult[i].claimed

ClaimedKept == Range(claimedIds) \subseteq Range(claimedIds')

C10_ClaimMonotonicity == []ClaimedReported /\ [][ClaimedKept]_vars

\* a list was returned that holds a document claimed before
C10_Witness ==
    \E i \in DOMAIN dresult :
       /\ dresult[i].documentId \in Range(dclaimed)
       /\ dresult[i].claimed

(***************************************************************************)
(* C11  Claim annotations are never documents: no entry of the list        *)
(* returned by getHolderDocuments(H, connection) is built from a memo with *)
(* action "claim", and a claim memo for H that a scan fetched does not     *)
(* bring its documentId into the list when the id is not otherwise known.  *)
(***************************************************************************)
\* the transaction of sig carries a claim memo of this system for holder H
IsClaimMemoFor(sig, H) ==
    /\ sig \in DOMAIN ledger
    /\ ledger[sig].memo.app = "chaindocs"
    /\ ledger[sig].memo.action = "claim"
    /\ ledger[sig].memo.holder = H

\* the claim memos for H the scans of the call in flight were given
ClaimMemosFetched == {c.sig : c \in {x \in dcalls : IsClaimMemoFor(x.sig, dholder)}}

\* no cached document and no issuance memo carries the id
NotOtherwiseKnown(id) ==
    /\ id \notin Ids(docs)
    /\ \A sig \in DOMAIN ledger :
          ledger[sig].memo.documentId = id => ledger[sig].memo.action = "claim"

C11_ClaimsAreNotDocuments ==
    [][DiscoverReturns =>
          /\ \A i \in DOMAIN dresult' :
                ~IsClaimMemoFor(dresult'[i].transactionSignature, dholder)
          /\ \A sig \in ClaimMemosFetched :
                NotOtherwiseKnown(ledger[sig].memo.documentId)
                   => ledger[sig].memo.documentId \notin Ids(dresult')]_vars

\* the scans are over and were given a claim memo for the holder whose
\* documentId is not otherwise known
C11_Witness ==
    /\ dpc = "save"
    /\ \E sig \in ClaimMemosFetched : NotOtherwiseKnown(ledger[sig].memo.documentId)

(***************************************************************************)
(* C12  No loss of already-found results: the list returned by             *)
(* getHolderDocuments(H, connection) holds every document the Cache Store  *)
(* held for H when the call started, whatever the ledger answers; when no  *)
(* request of the scans is answered the list holds the ids of the cache    *)
(* and no other.                                                           *)
(***************************************************************************)
\* the ids the cache held for holder H when the call in flight started
CachedFor(H) == {dholderDocs[i].documentId :
                    i \in {j \in DOMAIN dholderDocs : dholderDocs[j].holder = H}}

\* no request of Method 2 or Method 3 was answered
Degraded == dcalls = {} /\ 3 \in dfailed

C12_NoLoss ==
    [][DiscoverReturns =>
          /\ CachedFor(dholder) \subseteq Ids(dresult')
          /\ Degraded => Ids(dresult') = Ids(dholderDocs)]_vars

\* a degraded call is about to return: the cache held a document for the
\* holder that Method 1 did not keep
C12_Witness ==
    /\ dpc = "save"
    /\ Degraded
    /\ CachedFor(dholder) \ Ids(ddocuments) # {}

(***************************************************************************)
(* C13  Strategy failure isolation: whatever requests of the call threw,   *)
(* every issuance memo for the holder that a scan was given contributes    *)
(* its document to the list getHolderDocuments returns.                    *)
(***************************************************************************)
\* the transaction of sig carries an issuance memo of this system for holder H
IsIssuanceFor(sig, H) ==
    /\ sig \in DOMAIN ledger
    /\ ~ledger[sig].err
    /\ ledger[sig].memo.app = "chaindocs"
    /\ ledger[sig].memo.action # "claim"
    /\ ledger[sig].memo.holder = H

\* the issuance memos for the holder the scans of the call in flight were
\* given: Method 2 reads both instruction layouts, Method 3 the legacy one
Candidates ==
    {c \in dcalls : /\ IsIssuanceFor(c.sig, dholder)
                    /\ c.method = 3 => ledger[c.sig].format = "legacy"}

C13_FailureIsolation ==
    [][DiscoverReturns =>
          \A c \in Candidates : ledger[c.sig].memo.documentId \in Ids(dresult')]_vars

\* a request of Method 2 threw, and Method 3 has added a document the cache
\* did not hold
C13_Witness ==
    /\ dpc = "save"
    /\ 2 \in dfailed
    /\ \E c \in Candidates :
          /\ c.method = 3
          /\ ledger[c.sig].memo.documentId \notin Ids(dholderDocs)
          /\ ledger[c.sig].memo.documentId \in Ids(ddocuments)

(***************************************************************************)
(* C14  Degraded status is visible: when no request of the scans was       *)
(* answered, the status the caller shows for the returned list differs     *)
(* from the status of a scan that completed and found no documents.        *)
(***************************************************************************)
C14_DegradedVisible ==
    [][(DiscoverReturns /\ Degraded) =>
          ScanStatus(dresult') # ScanStatus(<<>>)]_vars

(***************************************************************************)
(* C15  Idempotence: when getHolderDocuments(H, connection) is called      *)
(* again, nothing having touched the Cache Store or the ledger since the   *)
(* call before started, and the ledger answers the same scan requests, the *)
(* list has the same set of documentIds as the list of the call before.    *)
(***************************************************************************)
\* the call in flight repeats the call before under the same answers
Repeats ==
    /\ dprev.phase = "second"
    /\ dprev.holder = dholder
    /\ dprev.calls = dcalls

C15_Idempotent ==
    [][(DiscoverReturns /\ Repeats) => Ids(dresult') = dprev.ids]_vars

\* a repeated call is about to return, the call before had found a document
\* on the ledger
C15_Witness ==
    /\ dpc = "save"
    /\ Repeats
    /\ \E c \in Candidates : ledger[c.sig].memo.documentId \in dprev.ids

(***************************************************************************)
(* C16  Write-back never loses data: every step of a call, its write-back  *)
(* included, leaves every entry of the Cache Store in its place and        *)
(* unchanged, whatever the other operations stored while the call was in   *)
(* flight; it only appends.                                                *)
(***************************************************************************)
\* a step of the call: its start, the end of a scan or its return
DiscoverSteps == dpc' # dpc

C16_WriteBackKeeps ==
    [][DiscoverSteps =>
          /\ Len(docs') >= Len(docs)
          /\ \A i \in DOMAIN docs : docs'[i] = docs[i]]_vars

\* the write-back is about to add a document to a store that holds a document
\* of another holder, another operation having acted during the call
C16_Witness ==
    /\ dpc = "save"
    /\ dprev.phase = "none"
    /\ \E i \in DOMAIN docs : docs[i].holder # dholder
    /\ Ids(ddocuments) \ Ids(docs) # {}

(***************************************************************************)
(* C17  Issuer Registry invariant: every issuer of a document stored in    *)
(* the Cache Store is a member of the Issuer Registry.                     *)
(***************************************************************************)
C17_IssuersRegistered ==
    \A i \in DOMAIN docs : docs[i].issuer \in Range(issuers)

(***************************************************************************)
(* C18  Cache id uniqueness: the Cache Store never holds two documents     *)
(* with the same documentId.                                               *)
(***************************************************************************)
C18_CacheIdsUnique ==
    \A id \in DocIds : Cardinality(EntriesOf(docs, id)) <= 1

(***************************************************************************)
(* C19  getCached is read-only and ledger-free: a call of                  *)
(* getHolderDocumentsFromCache(H) leaves the Cache Store, the ledger and   *)
(* the throttle as they are and returns the cached documents of holder H,  *)
(* all of them and no other, each annotated with claimed and nftMint from  *)
(* the store.                                                              *)
(***************************************************************************)
\* the step in which getHolderDocumentsFromCache returns a list
CachedReturns == dpc' = dpc /\ outVars' # outVars

\* a returned entry without its annotations
Stored(entry) == [f \in DOMAIN entry \ {"claimed", "nftMint"} |-> entry[f]]

C19_ReadOnly ==
    CachedReturns =>
       UNCHANGED <<docs, issuers, claimedIds, nftMint, claimTx, ledger, requests,
                   ledgerCalls>>

C19_Annotated ==
    CachedReturns =>
       \A i \in DOMAIN dresult' :
          /\ Stored(dresult'[i]) \in Range(docs)
          /\ dresult'[i].claimed = (dresult'[i].documentId \in Range(claimedIds))
          /\ dresult'[i].nftMint = nftMint[dresult'[i].documentId]

C19_OfTheHolder ==
    CachedReturns =>
       /\ \A i \in DOMAIN dresult' : dresult'[i].holder = dfor'
       /\ \A i \in DOMAIN docs :
             docs[i].holder = dfor' => docs[i].documentId \in Ids(dresult')

C19_GetCached == [][C19_ReadOnly /\ C19_Annotated /\ C19_OfTheHolder]_vars

(***************************************************************************)
(* C20  Output order: the list returned by getHolderDocuments(H,           *)
(* connection) is sorted by issueDate, newest first.                       *)
(***************************************************************************)
C20_NewestFirst ==
    [][DiscoverReturns =>
          \A i, j \in DOMAIN dresult' :
             i < j => dresult'[i].issueDate >= dresult'[j].issueDate]_vars

(***************************************************************************)
(* C21  pollOnce reports new documents: a poll (checkForNewDocuments)      *)
(* identifies for notification every document of its result whose id was   *)
(* not in the previous discover/poll result and that is not claimed, and   *)
(* no document that was in the previous result or is claimed.              *)
(***************************************************************************)
\* the step in which checkForNewDocuments has handled the list it got
PollReturns == pageOp' = "poll"

\* the documents of the new result that the previous result, as the page
\* keeps it in previousDocumentIds, lacked and that are not claimed
NewUnclaimed ==
    {doc \in Range(polled') :
        doc.documentId \notin previousDocumentIds /\ ~doc.claimed}

C21_PollReportsNew == [][PollReturns => pnotified' = NewUnclaimed]_vars

(***************************************************************************)
(* C22  discover terminates: whatever the ledger answers, rate-limit       *)
(* errors at every call included, the scan makes at most 2 ledger calls    *)
(* per cached document, scans at most 10 issuers with at most 3 + 2x50     *)
(* calls each, makes at most 3 + 2x20 calls on the memo channel, and       *)
(* completes.                                                              *)
(***************************************************************************)
QueryBounded ==
    /\ qpc = "m1" => qunit <= 2
    /\ qpc \in {"m2sig", "m2tx"} =>
          /\ qunit <= 3 + 2 * MAX_TXS_PER_ISSUER
          /\ qstep # "next" => qi < MAX_ISSUERS
    /\ qpc \in {"m3sig", "m3tx"} => qunit <= 3 + 2 * MemoScanLimit

C22_DiscoverTerminates == []QueryBounded /\ <>(qpc = "done")

\* the last issuer of a full registry has answered every call with a 429
C22_Witness ==
    /\ qpc = "m2tx"
    /\ qi = MAX_ISSUERS - 1
    /\ qunit = 3 + 2 * MAX_TXS_PER_ISSUER

(***************************************************************************)
(* C23  Scenario 1: when the cache holds exactly one document for holder   *)
(* H, that document has no transactionSignature and the issuer and memo    *)
(* scans return nothing, getHolderDocuments(H, connection) returns exactly *)
(* that document with its stored fields unchanged, and Method 1 makes no   *)
(* getTransaction call for it.                                             *)
(***************************************************************************)
Scenario1 ==
    /\ Len(dholderDocs) = 1
    /\ dholderDocs[1].holder = dholder
    /\ dholderDocs[1].transactionSignature = 0
    /\ Candidates = {}

C23_Scenario1 ==
    [][(DiscoverReturns /\ Scenario1) =>
          /\ Len(dresult') = 1
          /\ Stored(dresult'[1]) = dholderDocs[1]
          /\ dlookups = {}]_vars

\* the scans are over, no request of theirs threw
C23_Witness ==
    /\ dpc = "save"
    /\ Scenario1
    /\ dfailed = {}

(***************************************************************************)
(* C24  verifyDocument(hash, id) returns valid = true exactly when the     *)
(* Cache Store holds a document with documentId = id whose credentialHash  *)
(* equals hash; it returns 'Document not found' when no document has that  *)
(* id and 'Invalid credentials' when the id exists with another hash; it   *)
(* never modifies the store.                                               *)
(***************************************************************************)
\* the step in which verifyDocument returns
VerifyReturns == verifyVars' # verifyVars

\* the stored documents with the id asked for
WithId == {doc \in Range(docs) : doc.documentId = vid'}

C24_VerifyContract ==
    VerifyReturns =>
       /\ vresult'.valid <=> \E doc \in WithId : doc.credentialHash = vhash'
       /\ WithId = {} => vresult'.error = "Document not found"
       /\ (WithId # {} /\ ~vresult'.valid) => vresult'.error = "Invalid credentials"

C24_VerifyReadOnly == VerifyReturns => UNCHANGED <<cacheVars, ledger>>

C24_Verify == [][C24_VerifyContract /\ C24_VerifyReadOnly]_vars

(***************************************************************************)
(* C25  Throttle window invariant under concurrency: a timestamp is        *)
(* recorded only in a step in which fewer than maxRequests recorded        *)
(* timestamps are younger than timeWindow, a caller that slept included,   *)
(* so no trailing window of timeWindow ms holds more than maxRequests      *)
(* recorded timestamps.                                                    *)
(***************************************************************************)
\* the recorded timestamps in the window of timeWindow ms that ends at t
SlotsInWindow(t) ==
    {i \in DOMAIN slotTimes : slotTimes[i] <= t /\ t - slotTimes[i] < timeWindow}

WindowNeverOverfull ==
    \A i \in DOMAIN slotTimes : Cardinality(SlotsInWindow(slotTimes[i])) <= maxRequests

RecordsOnlyWithRoom ==
    slotTimes' # slotTimes => Cardinality(SlotsInWindow(now)) < maxRequests

RECURSIVE BackoffAt(_)
BackoffAt(i) == IF i = 1 THEN ebase ELSE NextDelay(BackoffAt(i - 1))

\* the delay the priority order asks for after the i-th failure; a header
\* that is not a number is left to C27
DelayByPriority(i) ==
    LET err == eresponses[i].err
    IN IF err.header # NoHeader
          THEN Times1000(ParseInt(err.header))
       ELSE IF HintPositions(err.message) # {}
          THEN Times1000(ParseInt(HintDigits(err.message)))
       ELSE Num(BackoffAt(i))

C26_DelayPriority ==
    \A i \in 1..Len(eslept) :
        ~DelayByPriority(i).nan => eslept[i] = JsMax(DelayByPriority(i), Num(1000))

(***************************************************************************)
(* C27  Minimum retry delay: every sleep rateLimitedRequest performs       *)
(* between two attempts lasts at least 1000 ms, for every baseDelay and    *)
(* every Retry-After header or message hint, a zero or non-numeric header  *)
(* included.                                                               *)
(***************************************************************************)
C27_MinimumDelay ==
    \A i \in 1..Len(eslept) : TimerMs(eslept[i]) >= 1000

(***************************************************************************)
(* C28  Single choke point: every ledger read of the scan is made inside   *)
(* a rateLimitedRequest, and every attempt of it, retries included, has    *)
(* acquired a throttle slot of its own before the ledger is called.        *)
(***************************************************************************)
\* the step in which the ledger client is called
LedgerRead == qunit' = qunit + 1

C28_ChokePoint ==
    /\ [](qcalls <= qslots)
    /\ [][LedgerRead => /\ qstep = "invoke"
                        /\ qslots = qcalls + 1
                        /\ qcalls' = qcalls + 1]_vars

\* a getTransaction of the memo scan was answered at its second attempt
C28_Witness ==
    /\ qpc = "m3tx"
    /\ qstep = "next"
    /\ qj = 1
    /\ qattempt = 1
    /\ qcalls = 2
    /\ qslots = 2

(***************************************************************************)
(* C29  Cache verification trusts the cache: in Method 1 a cached document *)
(* of holder H whose transaction lookup fails, by a thrown error or by the *)
(* ledger answering that it has no such transaction, is still among the    *)
(* candidates; only a transaction returned with an execution error         *)
(* excludes the document.                                                  *)
(***************************************************************************)
\* the step in which Method 1 has gone through the cached documents
Method1Done == dpc = "idle" /\ dpc' = "method2"

\* the ledger returns the transaction and it carries an execution error
ReturnedWithError(sig) == sig \in DOMAIN ledger /\ ledger[sig].err

C29_CacheTrusted ==
    [][Method1Done =>
          \A doc \in Range(docs) :
             (doc.holder = dholder' /\ doc \notin Range(ddocuments'))
                => ReturnedWithError(doc.transactionSignature)]_vars

(***************************************************************************)
(* C30  Write-back is an upsert by id: after getHolderDocuments(H,         *)
(* connection), for every scan candidate the Cache Store entry of holder H *)
(* with the candidate's id carries the candidate's fields, and a candidate *)
(* whose id was not stored is appended.                                    *)
(***************************************************************************)
C30_WriteBackUpserts ==
    [][DiscoverReturns =>
          \A c \in Range(ddocuments) :
             /\ \A i \in DOMAIN docs :
                   (docs[i].documentId = c.documentId /\ docs[i].holder = dholder)
                      => docs'[i] = c
             /\ c.documentId \notin Ids(docs) => c \in Range(docs')]_vars

(***************************************************************************)
(* C31  Claim state comes only from the Cache Store: every document of a   *)
(* list returned by getHolderDocuments or getHolderDocumentsFromCache has  *)
(* claimed equal to the membership of its documentId in chaindocs_claimed  *)
(* and nftMint equal to the stored chaindocs_nft_<id> entry (null when     *)
(* there is none), whatever the cached record or the scan candidate holds. *)
(***************************************************************************)
\* the annotations of an entry are those of the store
FromTheStore(entry) ==
    /\ entry.claimed = (entry.documentId \in Range(claimedIds))
    /\ entry.nftMint = nftMint[entry.documentId]

C31_ClaimStateFromStore ==
    [][(DiscoverReturns \/ CachedReturns) =>
          \A i \in DOMAIN dresult' : FromTheStore(dresult'[i])]_vars

\* a scan is about to return a document that is claimed and minted in the
\* store, and that a scan candidate was built for
C31_Witness ==
    /\ dpc = "save"
    /\ \E i \in DOMAIN ddocuments :
          /\ ddocuments[i].documentId \in Range(claimedIds)
          /\ nftMint[ddocuments[i].documentId] # 0

(***************************************************************************)
(* C32  Decode contract: an annotation whose payload is not valid JSON, or *)
(* that lacks one of the required keys (app, documentId, issuer, holder,   *)
(* type, title, issuedAt, credentialHash), never becomes a candidate       *)
(* document, and its rejection does not stop the scan of the transactions  *)
(* that follow.                                                            *)
(***************************************************************************)
\* the memo of the transaction is JSON and has the required keys
Decodes(tx) ==
    /\ tx.json
    /\ tx.memo.app # Absent
    /\ tx.memo.documentId # 0
    /\ tx.memo.issuer # Absent
    /\ tx.memo.holder # Absent
    /\ tx.memo.title # Absent
    /\ tx.memo.issuedAt # 0
    /\ tx.memo.credentialHash # Absent

\* no scan accepted a memo that does not decode
RejectsUndecodable == \A seen \in dseen : Decodes(ledger[seen.sig])

\* the memo scan went on after the memos it rejected: every legacy issuance
\* for the holder that it fetched is a candidate
ScanGoesOn ==
    dpc = "save" =>
       \A sig \in DOMAIN ledger :
          (/\ LedgerCall(3, "", sig) \in dcalls
           /\ Decodes(ledger[sig])
           /\ ledger[sig].format = "legacy"
           /\ ledger[sig].memo.action = ""
           /\ ledger[sig].memo.holder = dholder)
          => ledger[sig].memo.documentId \in Ids(ddocuments)

C32_DecodeContract == RejectsUndecodable /\ ScanGoesOn

(***************************************************************************)
(* C33  Same accept rule in both scans: of the transactions that both the  *)
(* issuer scan (Method 2) and the memo scan (Method 3) fetched, the memo   *)
(* scan accepts exactly those the issuer scan accepts for the holder,      *)
(* whether the message lists instructions or compiledInstructions.         *)
(***************************************************************************)
\* the transaction of sig was fetched by the method
FetchedBy(method, sig) == LedgerCall(method, "", sig) \in dcalls

\* the method accepted the memo of the transaction of sig
AcceptedBy(method, sig) == \E seen \in dseen : seen.method = method /\ seen.sig = sig

C33_SameAcceptRule ==
    dpc = "save" =>
       \A sig \in DOMAIN ledger :
          FetchedBy(2, sig) /\ FetchedBy(3, sig)
             => (AcceptedBy(3, sig) <=> AcceptedBy(2, sig))

(***************************************************************************)
(* C34  nftMint only when claimed: in every state of the Cache Store a     *)
(* document with a chaindocs_nft_<id> entry is in chaindocs_claimed, and   *)
(* in every list returned by getHolderDocuments or                         *)
(* getHolderDocumentsFromCache a document with a non-null nftMint has      *)
(* claimed = true.                                                         *)
(***************************************************************************)
MintedIsClaimedInStore ==
    \A id \in DocIds : nftMint[id] # 0 => id \in Range(claimedIds)

MintedIsClaimedInResult ==
    \A i \in DOMAIN dresult : dresult[i].nftMint # 0 => dresult[i].claimed

C34_MintOnlyWhenClaimed == MintedIsClaimedInStore /\ MintedIsClaimedInResult

\* a returned list holds a minted document next to one that is not minted
C34_Witness ==
    \E i, j \in DOMAIN dresult :
       /\ dresult[i].nftMint # 0
       /\ dresult[j].nftMint = 0
       /\ nftMint[dresult[i].documentId] = dresult[i].nftMint

(***************************************************************************)
(* C35  Identity fields are immutable in the cache: once a document with   *)
(* id X is in chaindocs_documents, the issuer and the holder stored for X  *)
(* never change, whatever is issued, imported (shareable data that reuses  *)
(* id X included), claimed, discovered or polled afterwards.               *)
(***************************************************************************)
\* the entries of the table stay where they are with their issuer and holder
IdentityKept ==
    \A i \in DOMAIN docs :
       /\ i \in DOMAIN docs'
       /\ docs'[i].documentId = docs[i].documentId
       /\ docs'[i].issuer = docs[i].issuer
       /\ docs'[i].holder = docs[i].holder

C35_IdentityImmutable == [][IdentityKept]_vars

(***************************************************************************)
(* C36  Single caller per session: in one holder session at most one       *)
(* discovery scan (a getHolderDocuments call of loadDocuments or of        *)
(* checkForNewDocuments) is in flight at any time; a scan starts only      *)
(* after the one before has completed.                                     *)
(***************************************************************************)
C36_SingleCaller == Len(sflight) <= 1

(***************************************************************************)
(* C37  A document is announced at most once: within one holder session,   *)
(* under any interleaving of overlapping loadDocuments and                 *)
(* checkForNewDocuments runs that share previousDocumentIds, a documentId  *)
(* is passed to setNewDocumentNotification at most once.                   *)
(***************************************************************************)
C37_AnnouncedOnce ==
    \A i, j \in DOMAIN sannounced : i # j => sannounced[i] # sannounced[j]

(***************************************************************************)
(* C38  A claim happens once: after the claim of a document has succeeded, *)
(* its chaindocs_nft_<id> and chaindocs_claim_tx_<id> entries never change *)
(* again, whatever is claimed later from the dashboard or from the         *)
(* new-document notification.                                              *)
(***************************************************************************)
\* the entries of a claimed document stay as they are
MintKept ==
    \A id \in Range(claimedIds) :
       /\ nftMint'[id] = nftMint[id]
       /\ claimTx'[id] = claimTx[id]

C38_ClaimOnce == [][MintKept]_vars

(***************************************************************************)
(* C39  Failed writes leave the cache unchanged: when issueDocument or     *)
(* claimDocumentAsNFT fails at a step up to and including the ledger       *)
(* confirmation (the wallet rejects, the send fails, the confirmation      *)
(* fails), it returns success = false and chaindocs_documents, the Issuer  *)
(* Registry, the claimed set and the nftMint entries are as before.        *)
(***************************************************************************)
\* the step is a call that threw at one of its three steps
CallFails == wresult'.step \in {"wallet", "send", "confirm"}

C39_FailedWritesKeepCache ==
    [][CallFails =>
          /\ ~wresult'.success
          /\ UNCHANGED <<docs, issuers, claimedIds, nftMint, claimTx>>]_vars

\* a claim whose confirmation failed has returned: its memo is on the ledger
\* after the memo of an earlier claim that is stored
C39_Witness ==
    /\ wresult = [op |-> "claim", step |-> "confirm", success |-> FALSE]
    /\ docs # <<>>
    /\ claimedIds # <<>>
    /\ \E id \in DocIds : nftMint[id] # 0 /\ nftMint[id] < Len(ledger)

(***************************************************************************)
(* C40  Import respects the connected holder: when the holder dashboard    *)
(* imports shareable data whose holder is not the connected wallet, the    *)
(* import is reported as rejected and chaindocs_documents and the Issuer   *)
(* Registry are left as they are; likewise for data without documentId,    *)
(* issuer or holder.                                                       *)
(***************************************************************************)
\* the step in which handleImportDocument returns
ImportReturns == nimports' = nimports + 1

C40_ImportRespectsHolder ==
    [][ImportReturns =>
          /\ sreport' \in {"error", "different wallet", "imported"}
          /\ sreport' # "imported" => UNCHANGED <<docs, issuers>>]_vars

============================================================================
